---- MODULE Spec2Model ----
(***************************************************************************)
(* MCNP Universe & Lattice Wizard (src/mcnp_wizard.py).                    *)
(*                                                                         *)
(* These parts of the program are modelled:                                *)
(*   - the LatticeSpec / Node data model,                                  *)
(*   - the path builder of MCNPWizard (_build_single_path,                 *)
(*     _build_union_paths, _build_tally_path, _check_needs_sd_card),       *)
(*   - the SI/SP cards of _generate_sdef_output,                           *)
(*   - the stack-building dialogue (_build_universe_stack,                 *)
(*     _climb_universe_stack) with the size guard, the launch of the       *)
(*     visual selector and the manual entry,                               *)
(*   - the key loop of VisualLatticeSelector.run with                      *)
(*     _is_selection_contiguous and _create_lattice_spec.                  *)
(*                                                                         *)
(* Python values are tagged records, so that the code's isinstance and     *)
(* "is None" tests are tests of the tag.  Python strings are sequences of  *)
(* one-character strings, built the way the f-strings build them.          *)
(***************************************************************************)
EXTENDS Integers, Sequences, FiniteSets, TLC

VARIABLES
    universe_stack,   \* MCNPWizard.universe_stack : sequence of Node
    target_cell,      \* MCNPWizard.target_cell    : None or PyInt
    tally_path,       \* value returned by _build_tally_path, None before the call
    needs_sd,         \* value returned by _check_needs_sd_card, None before the call
    sdef_card,        \* sdef_card of _generate_sdef_output, None before the call
    si_card,          \* si_card of _generate_sdef_output
    sp_card,          \* sp_card of _generate_sdef_output
    wizard_pc,        \* position of _build_universe_stack / _climb_universe_stack
    current_universe, \* argument of the running _climb_universe_stack call
    parent_node,      \* parent_node of the running _climb_universe_stack call
    lattice_type,     \* VisualLatticeSelector.lattice_type
    is_infinite,      \* VisualLatticeSelector.is_infinite
    i_bounds,         \* VisualLatticeSelector.i_bounds  <<min, max>>
    j_bounds,         \* VisualLatticeSelector.j_bounds
    k_bounds,         \* VisualLatticeSelector.k_bounds
    cursor_i,         \* VisualLatticeSelector.cursor_i
    cursor_j,         \* VisualLatticeSelector.cursor_j
    current_k,        \* VisualLatticeSelector.current_k
    selected,         \* VisualLatticeSelector.selected : set of <<i, j, k>>
    term,             \* what the terminal behind stdscr has room for
    pc,               \* position of VisualLatticeSelector.run
    run_result        \* value returned by run, None before it returns

wizardVars == <<universe_stack, target_cell, tally_path, needs_sd,
                sdef_card, si_card, sp_card,
                wizard_pc, current_universe, parent_node>>
selectorVars == <<lattice_type, is_infinite, i_bounds, j_bounds, k_bounds,
                  cursor_i, cursor_j, current_k, selected, term, pc, run_result>>
vars == <<universe_stack, target_cell, tally_path, needs_sd,
          sdef_card, si_card, sp_card,
          wizard_pc, current_universe, parent_node,
          lattice_type, is_infinite, i_bounds, j_bounds, k_bounds,
          cursor_i, cursor_j, current_k, selected, term, pc, run_result>>

(***************************************************************************)
(* Python values                                                           *)
(***************************************************************************)
None == [tag |-> "None"]
PyInt(n) == [tag |-> "int", n |-> n]
PyTuple(a, b) == [tag |-> "tuple", pair |-> <<a, b>>]
PyList(s) == [tag |-> "list", items |-> s]
PyStr(s) == [tag |-> "str", chars |-> s]
PyBool(b) == [tag |-> "bool", b |-> b]

\* isinstance(val, tuple)
IsTuple(val) == val.tag = "tuple"

\* isinstance(v, int)
IsInt(val) == val.tag = "int"

(***************************************************************************)
(* Strings: str(), f-string pieces, " ".join                               *)
(***************************************************************************)
DigitChars == <<"0", "1", "2", "3", "4", "5", "6", "7", "8", "9">>

RECURSIVE StrNat(_)
StrNat(n) ==
    IF n < 10 THEN <<DigitChars[n + 1]>>
    ELSE StrNat(n \div 10) \o <<DigitChars[(n % 10) + 1]>>

\* str(n) of a Python int
StrInt(n) == IF n < 0 THEN <<"-">> \o StrNat(0 - n) ELSE StrNat(n)

\* str(val) / f"{val}" of an Optional[int]: str(None) is "None"
StrVal(val) ==
    IF val.tag = "None" THEN <<"N", "o", "n", "e">> ELSE StrInt(val.n)

\* sep.join(parts)
RECURSIVE Join(_, _)
Join(sep, parts) ==
    IF parts = <<>> THEN <<>>
    ELSE IF Len(parts) = 1 THEN parts[1]
    ELSE parts[1] \o sep \o Join(sep, Tail(parts))

\* The Python string a character sequence stands for.
RECURSIVE Flat(_)
Flat(s) ==
    IF s = <<>> THEN ""
    ELSE IF Len(s) = 1 THEN s[1]
    ELSE LET h == Len(s) \div 2
         IN  Flat(SubSeq(s, 1, h)) \o Flat(SubSeq(s, h + 1, Len(s)))

\* s.find(sub, start), 1-based; 0 when sub does not occur from start on
Find(s, sub, start) ==
    LET hits == {p \in start..(Len(s) - Len(sub) + 1) :
                    SubSeq(s, p, p + Len(sub) - 1) = sub}
    IN  IF hits = {} THEN 0
        ELSE CHOOSE p \in hits : \A q \in hits : p <= q

\* s.count(sub): the non-overlapping occurrences, leftmost first
RECURSIVE CountFrom(_, _, _)
CountFrom(s, sub, start) ==
    LET p == Find(s, sub, start)
    IN  IF p = 0 THEN 0 ELSE 1 + CountFrom(s, sub, p + Len(sub))

Count(s, sub) == CountFrom(s, sub, 1)

(***************************************************************************)
(* LatticeSpec                                                             *)
(***************************************************************************)
\* The dataclass constructor: it stores its arguments and validates nothing.
LatticeSpec(i, j, k, elements) ==
    [tag |-> "LatticeSpec", i |-> i, j |-> j, k |-> k, elements |-> elements]

is_contiguous(spec) == spec.elements = None

is_non_contiguous(spec) == spec.elements # None

format_dimension(val) ==
    IF IsTuple(val)
    THEN StrInt(val.pair[1]) \o <<":">> \o StrInt(val.pair[2])
    ELSE StrVal(val)

to_mcnp_single_index(element) ==
    <<"[">> \o StrInt(element[1]) \o <<" ">> \o StrInt(element[2])
            \o <<" ">> \o StrInt(element[3]) \o <<"]">>

\* Mutant: the three dimensions separated by commas.
to_mcnp_string_commas(spec) ==
    IF is_contiguous(spec)
    THEN <<"[">> \o format_dimension(spec.i) \o <<",">>
                 \o format_dimension(spec.j) \o <<",">>
                 \o format_dimension(spec.k) \o <<"]">>
    ELSE <<"[", "e", "m", "p", "t", "y", "]">>

to_mcnp_string(spec) ==
    IF is_contiguous(spec)
    THEN <<"[">> \o format_dimension(spec.i) \o <<" ">>
                 \o format_dimension(spec.j) \o <<" ">>
                 \o format_dimension(spec.k) \o <<"]">>
    ELSE IF spec.elements.items # <<>>
         THEN to_mcnp_single_index(spec.elements.items[1])
                  \o <<" ", "(", "+">> \o StrInt(Len(spec.elements.items) - 1)
                  \o <<" ", "m", "o", "r", "e", ")">>
         ELSE <<"[", "e", "m", "p", "t", "y", "]">>

\* Mutant: a Contiguous spec is expanded, here into its first position.
get_all_elements_expanded(spec) ==
    IF is_non_contiguous(spec) THEN spec.elements.items
    ELSE <<<<IF IsTuple(spec.i) THEN spec.i.pair[1] ELSE spec.i.n,
             IF IsTuple(spec.j) THEN spec.j.pair[1] ELSE spec.j.n,
             IF IsTuple(spec.k) THEN spec.k.pair[1] ELSE spec.k.n>>>>

get_all_elements(spec) ==
    IF is_non_contiguous(spec) THEN spec.elements.items ELSE <<>>

is_single_element(spec) ==
    IF is_contiguous(spec)
    THEN IsInt(spec.i) /\ IsInt(spec.j) /\ IsInt(spec.k)
    ELSE Len(spec.elements.items) = 1

\* Mutant: the size of a range taken as max - min.
get_size_exclusive(val) == IF IsTuple(val) THEN val.pair[2] - val.pair[1] ELSE 1

get_size(val) == IF IsTuple(val) THEN val.pair[2] - val.pair[1] + 1 ELSE 1

element_count(spec) ==
    IF is_non_contiguous(spec) THEN Len(spec.elements.items)
    ELSE get_size(spec.i) * get_size(spec.j) * get_size(spec.k)

(***************************************************************************)
(* Node                                                                    *)
(***************************************************************************)
\* Node(cell_id=..., universe_id=..., fill_id=..., is_lattice=..., lattice_spec=...)
\* with the dataclass defaults for the remaining fields.
Node(cell_id, universe_id, fill_id, is_lattice, lattice_spec) ==
    [cell_id |-> cell_id, universe_id |-> universe_id, fill_id |-> fill_id,
     is_lattice |-> is_lattice, is_infinite_lattice |-> FALSE,
     lattice_spec |-> lattice_spec, lattice_type |-> None,
     lattice_bounds |-> None]

\* "node.lattice_spec" used as a condition: a dataclass instance is truthy.
HasSpec(node) == node.lattice_spec # None

\* The tuple (spec.i, spec.j, spec.k), each component as the attribute holds
\* it: an int, a range or None.
PyTriple(i, j, k) == [tag |-> "triple", values |-> <<i, j, k>>]

\* Node.lattice_index
lattice_index(node) ==
    IF HasSpec(node) /\ is_single_element(node.lattice_spec)
    THEN PyTriple(node.lattice_spec.i, node.lattice_spec.j, node.lattice_spec.k)
    ELSE None

(***************************************************************************)
(* Path builder                                                            *)
(***************************************************************************)
_has_non_contiguous_lattice(stack) ==
    \E n \in 1..Len(stack) :
        /\ stack[n].is_lattice
        /\ HasSpec(stack[n])
        /\ is_non_contiguous(stack[n].lattice_spec)

\* Mutant: the token follows the spec alone, the lattice flag not tested.
PathPartSpecOnly(node, lattice_element) ==
    IF HasSpec(node)
    THEN IF is_non_contiguous(node.lattice_spec) /\ lattice_element # None
         THEN StrInt(node.cell_id) \o to_mcnp_single_index(lattice_element.ijk)
         ELSE IF is_contiguous(node.lattice_spec)
              THEN StrInt(node.cell_id) \o to_mcnp_string(node.lattice_spec)
              ELSE StrInt(node.cell_id)
    ELSE StrInt(node.cell_id)

\* The token appended for one node of universe_stack[1:].
PathPart(node, lattice_element) ==
    IF node.is_lattice /\ HasSpec(node)
    THEN IF is_non_contiguous(node.lattice_spec) /\ lattice_element # None
         THEN StrInt(node.cell_id) \o to_mcnp_single_index(lattice_element.ijk)
         ELSE IF is_contiguous(node.lattice_spec)
              THEN StrInt(node.cell_id) \o to_mcnp_string(node.lattice_spec)
              ELSE StrInt(node.cell_id)
    ELSE StrInt(node.cell_id)

\* Mutant: the path written top-down, the universe-0 cell first.
_build_single_path_top_down(stack, lattice_element) ==
    LET parts == [n \in 1..Len(stack) |->
                     IF n = Len(stack) THEN StrInt(stack[1].cell_id)
                     ELSE PathPart(stack[Len(stack) - n + 1], lattice_element)]
    IN  Join(<<" ", "<", " ">>, parts)

\* lattice_element is None or PyElement(<<i, j, k>>).
_build_single_path(stack, lattice_element) ==
    LET parts == <<StrInt(stack[1].cell_id)>> \o
                 [n \in 1..(Len(stack) - 1) |->
                      PathPart(stack[n + 1], lattice_element)]
    IN  Join(<<" ", "<", " ">>, parts)

PyElement(e) == [tag |-> "element", ijk |-> e]

\* Index of the first node the "for ... break" loop stops at, 0 when none.
FirstNonContiguous(stack) ==
    IF _has_non_contiguous_lattice(stack)
    THEN CHOOSE n \in 1..Len(stack) :
             /\ stack[n].is_lattice /\ HasSpec(stack[n])
             /\ is_non_contiguous(stack[n].lattice_spec)
             /\ \A m \in 1..(n - 1) :
                    ~(stack[m].is_lattice /\ HasSpec(stack[m])
                      /\ is_non_contiguous(stack[m].lattice_spec))
    ELSE 0

\* f"( {single_path} )" for one element
UnionMember(stack, element) ==
    <<"(", " ">> \o _build_single_path(stack, PyElement(element)) \o <<" ", ")">>

_build_union_paths(stack) ==
    LET n == FirstNonContiguous(stack)
    IN  IF n = 0 THEN _build_single_path(stack, None)
        ELSE LET elements == get_all_elements(stack[n].lattice_spec)
                 paths == [e \in 1..Len(elements) |->
                               UnionMember(stack, elements[e])]
                 union == Join(<<" ">>, paths)
             IN  <<"(", " ">> \o union \o <<" ", ")">>

_build_tally_path(stack, target) ==
    IF stack = <<>> THEN <<"(", " ">> \o StrVal(target) \o <<" ", ")">>
    ELSE IF _has_non_contiguous_lattice(stack) THEN _build_union_paths(stack)
    ELSE <<"(", " ">> \o _build_single_path(stack, None) \o <<" ", ")">>

\* Mutant: the loop runs over every node, the target included.
_check_needs_sd_card_all_nodes(stack) ==
    \E n \in 1..Len(stack) : stack[n].is_lattice

\* Mutant: the loop leaves out the root (universe_stack[:-1]), not the target.
_check_needs_sd_card_skip_root(stack) ==
    \E n \in 1..(Len(stack) - 1) : stack[n].is_lattice

_check_needs_sd_card(stack) ==
    /\ Len(stack) > 1
    /\ \E n \in 2..Len(stack) : stack[n].is_lattice

(***************************************************************************)
(* Stacks handed to the path builder.  examples.py and the tests assign    *)
(* wizard.universe_stack a list of Node(...) literals; the stacks below    *)
(* are such lists, every node drawn from a small pool and the universes    *)
(* chained from the target up to universe 0.                               *)
(***************************************************************************)
MaxStack == 3

CellIds == {1, 2, 5, 50, 101}

\* Contiguous specs: every mix of single index and range on the three axes.
ContiguousSpecs ==
    {LatticeSpec(di, dj, dk, None) :
        di \in {PyInt(3), PyTuple(0, 9)},
        dj \in {PyInt(4), PyTuple(-2, 2)},
        dk \in {PyInt(0), PyTuple(0, 2)}}

\* LatticeSpec(elements=[(0, 0, 0), (9, 9, 0), (0, 9, 0), (9, 0, 0)])
CornerSpec ==
    LatticeSpec(None, None, None,
                PyList(<<<<0, 0, 0>>, <<9, 9, 0>>, <<0, 9, 0>>, <<9, 0, 0>>>>))

\* LatticeSpec(i=0, j=(5, 2), k=0)
InvertedSpec == LatticeSpec(PyInt(0), PyTuple(5, 2), PyInt(0), None)

\* LatticeSpec(elements=[(1, 2, 0), (-1, 0, 3)])
PairSpec == LatticeSpec(None, None, None, PyList(<<<<1, 2, 0>>, <<-1, 0, 3>>>>))

\* LatticeSpec(elements=[(2, 3, 1)])
SingleSpec == LatticeSpec(None, None, None, PyList(<<<<2, 3, 1>>>>))

\* LatticeSpec(elements=[])
EmptySpec == LatticeSpec(None, None, None, PyList(<<>>))

NodeShapes ==
    {[cell_id |-> c, is_lattice |-> FALSE, lattice_spec |-> None] : c \in CellIds}
    \cup {[cell_id |-> 50, is_lattice |-> TRUE, lattice_spec |-> s] :
             s \in ContiguousSpecs
                       \cup {CornerSpec, PairSpec, SingleSpec, InvertedSpec,
                             EmptySpec, None}}
    \cup {[cell_id |-> 50, is_lattice |-> FALSE, lattice_spec |-> s] :
             s \in {LatticeSpec(PyInt(3), PyInt(4), PyInt(0), None), CornerSpec}}

\* Node n of a stack of the given length resides in universe length - n
\* (the last one in universe 0) and fills the universe of the node below it.
MakeStack(shapes) ==
    [n \in 1..Len(shapes) |->
        Node(shapes[n].cell_id,
             PyInt(Len(shapes) - n),
             IF n = 1 THEN None ELSE PyInt(Len(shapes) - n + 1),
             shapes[n].is_lattice,
             shapes[n].lattice_spec)]

(***************************************************************************)
(* Wizard: output generation on a finished stack                           *)
(***************************************************************************)
SelectorIdle ==
    /\ lattice_type = None /\ is_infinite = None
    /\ i_bounds = None /\ j_bounds = None /\ k_bounds = None
    /\ cursor_i = None /\ cursor_j = None /\ current_k = None
    /\ selected = {} /\ term = None /\ pc = "idle" /\ run_result = None

\* The stack was assigned as a whole: no dialogue is running.
InitWizard ==
    /\ \E len \in 0..MaxStack :
           \E shapes \in [1..len -> NodeShapes] :
               universe_stack = MakeStack(shapes)
    /\ target_cell \in IF universe_stack = <<>>
                       THEN {None} \cup {PyInt(c) : c \in CellIds}
                       ELSE {PyInt(universe_stack[1].cell_id)}
    /\ tally_path = None
    /\ needs_sd = None
    /\ sdef_card = None /\ si_card = None /\ sp_card = None
    /\ wizard_pc = "done" /\ current_universe = None /\ parent_node = None
    /\ SelectorIdle

dialogueVars == <<wizard_pc, current_universe, parent_node>>

\* _generate_tally_output: path_string = self._build_tally_path(), then
\* needs_sd = self._check_needs_sd_card().
GenerateTallyOutput ==
    /\ pc = "idle"
    /\ wizard_pc = "done"
    /\ tally_path = None
    /\ tally_path' = PyStr(_build_tally_path(universe_stack, target_cell))
    /\ needs_sd' = PyBool(_check_needs_sd_card(universe_stack))
    /\ UNCHANGED <<universe_stack, target_cell, sdef_card, si_card, sp_card>>
    /\ UNCHANGED dialogueVars
    /\ UNCHANGED selectorVars

\* A float the operator typed, kept as the text f"{x}" gives for it.
PyFloat(text) == [tag |-> "float", text |-> text]

\* sdef_card: "SDEF CEL=d<n>", then POS and ERG when the operator gave them.
sdef_card_of(dist_num, pos, erg) ==
    <<"S", "D", "E", "F", " ", "C", "E", "L", "=", "d">> \o StrInt(dist_num)
        \o (IF pos # None
            THEN <<" ", "P", "O", "S", "=">> \o pos.xyz[1].text \o <<" ">>
                     \o pos.xyz[2].text \o <<" ">> \o pos.xyz[3].text
            ELSE <<>>)
        \o (IF erg # None THEN <<" ", "E", "R", "G", "=">> \o erg.text ELSE <<>>)

\* f"({single_path})" for one element
SiMember(stack, element) ==
    <<"(">> \o _build_single_path(stack, PyElement(element)) \o <<")">>

\* si_card of either branch
sdef_si_card(stack, target, dist_num) ==
    IF _has_non_contiguous_lattice(stack)
    THEN LET elements == get_all_elements(stack[FirstNonContiguous(stack)].lattice_spec)
             paths == [e \in 1..Len(elements) |-> SiMember(stack, elements[e])]
             listed == [e \in 1..Len(elements) |-> <<" ">> \o paths[e]]
         IN  <<"S", "I">> \o StrInt(dist_num) \o <<" ", "L">> \o Join(<<>>, listed)
    ELSE <<"S", "I">> \o StrInt(dist_num) \o <<" ", "L", " ">>
             \o _build_tally_path(stack, target)

\* Mutant: one probability whatever the number of listed paths.
sdef_sp_card_single(stack, dist_num) ==
    <<"S", "P">> \o StrInt(dist_num) \o <<" ", "1">>

\* sp_card of either branch
sdef_sp_card(stack, dist_num) ==
    IF _has_non_contiguous_lattice(stack)
    THEN LET elements == get_all_elements(stack[FirstNonContiguous(stack)].lattice_spec)
             num_elements == Len(elements)
             sp_values == Join(<<" ">>, [e \in 1..num_elements |-> <<"1">>])
         IN  <<"S", "P">> \o StrInt(dist_num) \o <<" ">> \o sp_values
    ELSE <<"S", "P">> \o StrInt(dist_num) \o <<" ", "1">>

\* The operator's answers to _generate_sdef_output: the distribution number
\* (the default 1, or another), a position or none, an energy or none.
SdefAnswers ==
    {[dist_num |-> 1, pos |-> None, erg |-> None],
     [dist_num |-> 12,
      pos |-> [tag |-> "pos",
               xyz |-> <<PyFloat(<<"0", ".", "0">>), PyFloat(<<"-", "1", ".", "5">>),
                         PyFloat(<<"2", ".", "0">>)>>],
      erg |-> PyFloat(<<"1", "4", ".", "1">>)]}

\* _generate_sdef_output
GenerateSdefOutput ==
    /\ pc = "idle"
    /\ wizard_pc = "done"
    /\ sdef_card = None
    /\ \E answers \in SdefAnswers :
           /\ sdef_card' = PyStr(sdef_card_of(answers.dist_num, answers.pos, answers.erg))
           /\ si_card' = PyStr(sdef_si_card(universe_stack, target_cell, answers.dist_num))
           /\ sp_card' = PyStr(sdef_sp_card(universe_stack, answers.dist_num))
    /\ UNCHANGED <<universe_stack, target_cell, tally_path, needs_sd>>
    /\ UNCHANGED dialogueVars
    /\ UNCHANGED selectorVars

NextWizard == GenerateTallyOutput

Spec == InitWizard /\ [][NextWizard]_vars

\* The same stacks, handed to _generate_sdef_output.
NextSdef == GenerateSdefOutput

SpecSdef == InitWizard /\ [][NextSdef]_vars

(***************************************************************************)
(* VisualLatticeSelector                                                   *)
(***************************************************************************)
Min(S) == CHOOSE x \in S : \A y \in S : x <= y
Max(S) == CHOOSE x \in S : \A y \in S : x >= y

\* max(a, b) and min(a, b) of two ints
Max2(a, b) == IF a >= b THEN a ELSE b
Min2(a, b) == IF a <= b THEN a ELSE b

\* a < b for two (i, j, k) tuples, as Python compares tuples
TupleLess(a, b) ==
    \/ a[1] < b[1]
    \/ a[1] = b[1] /\ a[2] < b[2]
    \/ a[1] = b[1] /\ a[2] = b[2] /\ a[3] < b[3]

\* Mutant: the list in descending order.
RECURSIVE sorted_descending(_)
sorted_descending(S) ==
    IF S = {} THEN <<>>
    ELSE LET m == CHOOSE x \in S : \A y \in S \ {x} : TupleLess(y, x)
         IN  <<m>> \o sorted_descending(S \ {m})

\* sorted(list(S)) of a set of tuples
RECURSIVE sorted(_)
sorted(S) ==
    IF S = {} THEN <<>>
    ELSE LET m == CHOOSE x \in S : \A y \in S \ {x} : TupleLess(x, y)
         IN  <<m>> \o sorted(S \ {m})

\* Mutant: the offsets of an even row used for every row.
_get_hex_neighbor_even_rows(i, j, direction) ==
    CASE direction = "E" -> <<i + 1, j>>
      [] direction = "W" -> <<i - 1, j>>
      [] direction = "NE" -> <<i, j - 1>>
      [] direction = "NW" -> <<i - 1, j - 1>>
      [] direction = "SE" -> <<i, j + 1>>
      [] direction = "SW" -> <<i - 1, j + 1>>
      [] OTHER -> <<i, j>>

\* (new_i, new_j) of _get_hex_neighbor
_get_hex_neighbor(i, j, direction) ==
    LET is_odd_row == (j % 2 = 1)
    IN  CASE direction = "E" -> <<i + 1, j>>
          [] direction = "W" -> <<i - 1, j>>
          [] direction = "NE" ->
                 IF is_odd_row THEN <<i + 1, j - 1>> ELSE <<i, j - 1>>
          [] direction = "NW" ->
                 IF is_odd_row THEN <<i, j - 1>> ELSE <<i - 1, j - 1>>
          [] direction = "SE" ->
                 IF is_odd_row THEN <<i + 1, j + 1>> ELSE <<i, j + 1>>
          [] direction = "SW" ->
                 IF is_odd_row THEN <<i, j + 1>> ELSE <<i - 1, j + 1>>
          [] OTHER -> <<i, j>>

\* Mutant: contiguity judged on the i-j box of the layers that hold a
\* selection, gaps between the layers ignored.
_is_selection_contiguous_per_layer(sel) ==
    IF sel = {} THEN TRUE
    ELSE LET i_vals == {cell[1] : cell \in sel}
             j_vals == {cell[2] : cell \in sel}
             k_vals == {cell[3] : cell \in sel}
         IN  Cardinality(sel) =
                 (Max(i_vals) - Min(i_vals) + 1) * (Max(j_vals) - Min(j_vals) + 1)
                     * Cardinality(k_vals)

_is_selection_contiguous(sel) ==
    IF sel = {} THEN TRUE
    ELSE IF Cardinality(sel) = 1 THEN TRUE
    ELSE LET i_vals == {cell[1] : cell \in sel}
             j_vals == {cell[2] : cell \in sel}
             k_vals == {cell[3] : cell \in sel}
             i_min == Min(i_vals)
             i_max == Max(i_vals)
             j_min == Min(j_vals)
             j_max == Max(j_vals)
             k_min == Min(k_vals)
             k_max == Max(k_vals)
             expected_count ==
                 (i_max - i_min + 1) * (j_max - j_min + 1) * (k_max - k_min + 1)
             actual_count == Cardinality(sel)
         IN  IF expected_count = actual_count
             THEN \A i \in i_min..i_max : \A j \in j_min..j_max :
                      \A k \in k_min..k_max : <<i, j, k>> \in sel
             ELSE FALSE

\* Mutant: every axis is written as a range, min == max included.
make_spec_dim_always_range(min_val, max_val) == PyTuple(min_val, max_val)

make_spec_dim(min_val, max_val) ==
    IF min_val = max_val THEN PyInt(min_val) ELSE PyTuple(min_val, max_val)

_create_lattice_spec(sel) ==
    IF sel = {} THEN None
    ELSE IF _is_selection_contiguous(sel)
    THEN LET i_vals == {cell[1] : cell \in sel}
             j_vals == {cell[2] : cell \in sel}
             k_vals == {cell[3] : cell \in sel}
         IN  LatticeSpec(make_spec_dim(Min(i_vals), Max(i_vals)),
                         make_spec_dim(Min(j_vals), Max(j_vals)),
                         make_spec_dim(Min(k_vals), Max(k_vals)),
                         None)
    ELSE LatticeSpec(None, None, None, PyList(sorted(sel)))

\* Bounds the selector is created with.
MaxJ == 1
MaxK == 2

Windows ==
    {<<<<0, 1>>, <<0, 0>>, <<0, MaxK>>>>,
     <<<<-1, 0>>, <<0 - MaxJ, MaxJ>>, <<0, 0>>>>,
     <<<<0, 0>>, <<0, 1>>, <<-1, 0>>>>,
     <<<<0, 2>>, <<0, 2>>, <<0, 0>>>>}

WizardIdle ==
    /\ universe_stack = <<>> /\ target_cell = None
    /\ tally_path = None /\ needs_sd = None
    /\ sdef_card = None /\ si_card = None /\ sp_card = None
    /\ wizard_pc = "idle" /\ current_universe = None /\ parent_node = None

\* What the terminal has room for when _draw_interface runs: everything; the
\* title, instruction and info lines but not the grid (the curses.error of
\* the grid is caught by the _draw_*_lattice methods); or not even those
\* lines (their addstr calls are outside every try).
TermSizes == {"fits", "grid_clipped", "header_clipped"}

\* VisualLatticeSelector.__init__, then run up to the top of its loop.
\* pc = "getch": an iteration of the loop is about to draw the interface and
\* read a key.
InitSelector ==
    /\ WizardIdle
    /\ lattice_type \in {1, 2}
    /\ is_infinite \in BOOLEAN
    /\ \E bounds \in Windows :
           /\ i_bounds = bounds[1]
           /\ j_bounds = bounds[2]
           /\ k_bounds = bounds[3]
    /\ current_k = (k_bounds[1] + k_bounds[2]) \div 2
    /\ cursor_i = (i_bounds[1] + i_bounds[2]) \div 2
    /\ cursor_j = (j_bounds[1] + j_bounds[2]) \div 2
    /\ selected = {}
    /\ term \in TermSizes
    /\ pc = "getch"
    /\ run_result = None

configVars == <<lattice_type, is_infinite, i_bounds, j_bounds, k_bounds>>

\* Mutant: the bounds test of a hexagonal move looks at i only.
InBoundsIOnly(new_i, new_j) ==
    i_bounds[1] <= new_i /\ new_i <= i_bounds[2]

InBounds(new_i, new_j) ==
    /\ i_bounds[1] <= new_i /\ new_i <= i_bounds[2]
    /\ j_bounds[1] <= new_j /\ new_j <= j_bounds[2]

\* The hexagonal branch of a movement key.
HexMove(direction) ==
    LET new == _get_hex_neighbor(cursor_i, cursor_j, direction)
    IN  IF InBounds(new[1], new[2])
        THEN cursor_i' = new[1] /\ cursor_j' = new[2]
        ELSE UNCHANGED <<cursor_i, cursor_j>>

\* _draw_interface returned: the key of this iteration is read.
DrawOk == term # "header_clipped"

\* What every key but q, d leaves alone.
KeyFrame ==
    /\ pc = "getch"
    /\ DrawOk
    /\ UNCHANGED wizardVars
    /\ UNCHANGED configVars
    /\ UNCHANGED <<term, pc, run_result>>

\* _draw_interface raises curses.error: run ends with the exception and
\* returns nothing.
DrawRaises ==
    /\ pc = "getch"
    /\ ~DrawOk
    /\ pc' = "raised"
    /\ UNCHANGED wizardVars
    /\ UNCHANGED configVars
    /\ UNCHANGED <<cursor_i, cursor_j, current_k, selected, term, run_result>>

\* KEY_RESIZE: the terminal was resized; no branch of run matches the key.
KeyResize ==
    /\ pc = "getch"
    /\ DrawOk
    /\ term' \in TermSizes \ {term}
    /\ UNCHANGED wizardVars
    /\ UNCHANGED configVars
    /\ UNCHANGED <<cursor_i, cursor_j, current_k, selected, pc, run_result>>

\* q or ESC
KeyCancel ==
    /\ pc = "getch"
    /\ DrawOk
    /\ pc' = "returned"
    /\ run_result' = None
    /\ UNCHANGED wizardVars
    /\ UNCHANGED configVars
    /\ UNCHANGED <<cursor_i, cursor_j, current_k, selected, term>>

\* Mutant: Enter or Space toggles the cell of the first layer under the
\* cursor, whatever the current layer.
KeyToggleFirstLayer ==
    /\ KeyFrame
    /\ LET cell == <<cursor_i, cursor_j, k_bounds[1]>>
       IN  selected' = IF cell \in selected THEN selected \ {cell}
                       ELSE selected \cup {cell}
    /\ UNCHANGED <<cursor_i, cursor_j, current_k>>

\* Enter or Space
KeyToggle ==
    /\ KeyFrame
    /\ LET cell == <<cursor_i, cursor_j, current_k>>
       IN  selected' = IF cell \in selected THEN selected \ {cell}
                       ELSE selected \cup {cell}
    /\ UNCHANGED <<cursor_i, cursor_j, current_k>>

\* Mutant: d returns _create_lattice_spec() whatever the selection.
KeyDoneUnchecked ==
    /\ pc = "getch"
    /\ DrawOk
    /\ pc' = "returned"
    /\ run_result' = _create_lattice_spec(selected)
    /\ UNCHANGED wizardVars
    /\ UNCHANGED configVars
    /\ UNCHANGED <<cursor_i, cursor_j, current_k, selected, term>>

\* d: return the spec, or show "ERROR: No cells selected!" and wait for a key
KeyDone ==
    /\ pc = "getch"
    /\ DrawOk
    /\ IF selected # {}
       THEN pc' = "returned" /\ run_result' = _create_lattice_spec(selected)
       ELSE pc' = "error_getch" /\ run_result' = run_result
    /\ UNCHANGED wizardVars
    /\ UNCHANGED configVars
    /\ UNCHANGED <<cursor_i, cursor_j, current_k, selected, term>>

\* The key that dismisses the error message (the getch after it); the key
\* may be the KEY_RESIZE of a resize.
DismissError ==
    /\ pc = "error_getch"
    /\ pc' = "getch"
    /\ term' \in TermSizes
    /\ UNCHANGED wizardVars
    /\ UNCHANGED configVars
    /\ UNCHANGED <<cursor_i, cursor_j, current_k, selected, run_result>>

KeyUp ==
    /\ KeyFrame
    /\ IF lattice_type = 2 THEN HexMove("NW")
       ELSE cursor_j' = Max2(j_bounds[1], cursor_j - 1) /\ cursor_i' = cursor_i
    /\ UNCHANGED <<current_k, selected>>

KeyDown ==
    /\ KeyFrame
    /\ IF lattice_type = 2 THEN HexMove("SE")
       ELSE cursor_j' = Min2(j_bounds[2], cursor_j + 1) /\ cursor_i' = cursor_i
    /\ UNCHANGED <<current_k, selected>>

KeyLeft ==
    /\ KeyFrame
    /\ IF lattice_type = 2 THEN HexMove("W")
       ELSE cursor_i' = Max2(i_bounds[1], cursor_i - 1) /\ cursor_j' = cursor_j
    /\ UNCHANGED <<current_k, selected>>

KeyRight ==
    /\ KeyFrame
    /\ IF lattice_type = 2 THEN HexMove("E")
       ELSE cursor_i' = Min2(i_bounds[2], cursor_i + 1) /\ cursor_j' = cursor_j
    /\ UNCHANGED <<current_k, selected>>

\* e, w, x, z: the hexagonal diagonals; no branch matches on a rectangular
\* lattice.
HexKey(direction) ==
    /\ KeyFrame
    /\ IF lattice_type = 2 THEN HexMove(direction)
       ELSE UNCHANGED <<cursor_i, cursor_j>>
    /\ UNCHANGED <<current_k, selected>>

KeyE == HexKey("NE")

KeyW == HexKey("NW")

KeyX == HexKey("SE")

KeyZ == HexKey("SW")

\* Mutant: a layer change puts the cursor back to the centre.
KeyLayerDownRecentres ==
    /\ KeyFrame
    /\ current_k' = Max2(k_bounds[1], current_k - 1)
    /\ cursor_i' = (i_bounds[1] + i_bounds[2]) \div 2
    /\ cursor_j' = (j_bounds[1] + j_bounds[2]) \div 2
    /\ UNCHANGED selected

\* [ , or <
KeyLayerDown ==
    /\ KeyFrame
    /\ current_k' = Max2(k_bounds[1], current_k - 1)
    /\ UNCHANGED <<cursor_i, cursor_j, selected>>

\* ] . or >
KeyLayerUp ==
    /\ KeyFrame
    /\ current_k' = Min2(k_bounds[2], current_k + 1)
    /\ UNCHANGED <<cursor_i, cursor_j, selected>>

\* Mutant: a selects the cells of the current layer only.
KeySelectAllCurrentLayer ==
    /\ KeyFrame
    /\ selected' = selected \cup
           {<<i, j, current_k>> : i \in i_bounds[1]..i_bounds[2],
                                  j \in j_bounds[1]..j_bounds[2]}
    /\ UNCHANGED <<cursor_i, cursor_j, current_k>>

\* a
KeySelectAll ==
    /\ KeyFrame
    /\ selected' = selected \cup
           {<<i, j, k>> : i \in i_bounds[1]..i_bounds[2],
                          j \in j_bounds[1]..j_bounds[2],
                          k \in k_bounds[1]..k_bounds[2]}
    /\ UNCHANGED <<cursor_i, cursor_j, current_k>>

\* c: clears on a rectangular lattice only
KeyC ==
    /\ KeyFrame
    /\ selected' = IF lattice_type # 2 THEN {} ELSE selected
    /\ UNCHANGED <<cursor_i, cursor_j, current_k>>

\* r
KeyR ==
    /\ KeyFrame
    /\ selected' = {}
    /\ UNCHANGED <<cursor_i, cursor_j, current_k>>

NextSelector ==
    \/ DrawRaises
    \/ KeyResize
    \/ KeyCancel
    \/ KeyToggle
    \/ KeyDone
    \/ DismissError
    \/ KeyUp
    \/ KeyDown
    \/ KeyLeft
    \/ KeyRight
    \/ KeyE
    \/ KeyW
    \/ KeyX
    \/ KeyZ
    \/ KeyLayerDown
    \/ KeyLayerUp
    \/ KeySelectAll
    \/ KeyC
    \/ KeyR

SpecSelector == InitSelector /\ [][NextSelector]_vars

\* The bounds of _climb_universe_stack reach the selector as typed: the six
\* _get_int_input answers are never compared, so a window may have its
\* minimum above its maximum.
UnvalidatedWindows ==
    Windows \cup {<<<<5, 2>>, <<0, 0>>, <<0, 0>>>>,
                  <<<<0, 1>>, <<0, 0>>, <<2, 0>>>>}

\* VisualLatticeSelector.__init__ on any window the dialogue passes.
InitSelectorUnvalidated ==
    /\ WizardIdle
    /\ lattice_type \in {1, 2}
    /\ is_infinite \in BOOLEAN
    /\ \E bounds \in UnvalidatedWindows :
           /\ i_bounds = bounds[1]
           /\ j_bounds = bounds[2]
           /\ k_bounds = bounds[3]
    /\ current_k = (k_bounds[1] + k_bounds[2]) \div 2
    /\ cursor_i = (i_bounds[1] + i_bounds[2]) \div 2
    /\ cursor_j = (j_bounds[1] + j_bounds[2]) \div 2
    /\ selected = {}
    /\ term \in TermSizes
    /\ pc = "getch"
    /\ run_result = None

SpecSelectorUnvalidated == InitSelectorUnvalidated /\ [][NextSelector]_vars

(***************************************************************************)
(* The stack-building dialogue: _build_universe_stack and the recursive    *)
(* _climb_universe_stack, one action per stretch of prompts between two    *)
(* calls.  wizard_pc is the position inside the running call.              *)
(***************************************************************************)
\* The most parent levels the operator climbs.
MaxClimb == 2

TargetCells == {101}
ParentCells == {50}

\* The lattice type the operator enters (1 = rectangular).
LatticeTypeAnswers == {1}
Universes == {0, 5, 100}

\* ((i_min, i_max), (j_min, j_max), (k_min, k_max))
PyBounds(bounds) == [tag |-> "bounds", win |-> bounds]

\* Bounds the operator enters: a small window, one above the per-layer
\* threshold (21 x 21 = 441 cells), one above the total threshold only
\* (10 x 10 x 21 = 2100 cells).
DialogueWindows ==
    {<<<<0, 1>>, <<0, 0>>, <<0, 2>>>>,
     <<<<0, 20>>, <<0, 20>>, <<0, 0>>>>,
     <<<<0, 9>>, <<0, 9>>, <<0, 20>>>>}

\* What the operator types at the three parse_dimension prompts.
ManualDimensions == {<<PyTuple(0, 9), PyInt(4), PyInt(0)>>}

\* The universes the operator may name for the node appended next: universe
\* 0 once MaxClimb parent levels are reached.
UniverseAnswers ==
    IF Len(universe_stack) >= MaxClimb THEN {0} ELSE Universes

InitDialogue ==
    /\ universe_stack = <<>> /\ target_cell = None
    /\ tally_path = None /\ needs_sd = None
    /\ sdef_card = None /\ si_card = None /\ sp_card = None
    /\ wizard_pc = "start" /\ current_universe = None /\ parent_node = None
    /\ SelectorIdle

outputVars == <<tally_path, needs_sd, sdef_card, si_card, sp_card>>

\* _build_universe_stack up to its call of _climb_universe_stack.
BuildUniverseStack ==
    /\ wizard_pc = "start"
    /\ \E cell \in TargetCells : \E in_universe \in BOOLEAN :
       \E universe \in UniverseAnswers :
           /\ target_cell' = PyInt(cell)
           /\ IF in_universe
              THEN /\ universe_stack' =
                          Append(universe_stack,
                                 Node(cell, PyInt(universe), None, FALSE, None))
                   /\ wizard_pc' = "climb"
                   /\ current_universe' = PyInt(universe)
              ELSE /\ universe_stack' =
                          Append(universe_stack,
                                 Node(cell, PyInt(0), None, FALSE, None))
                   /\ wizard_pc' = "done"
                   /\ current_universe' = current_universe
    /\ UNCHANGED parent_node
    /\ UNCHANGED outputVars
    /\ UNCHANGED selectorVars

\* "if current_universe == 0: return"
ClimbReturn ==
    /\ wizard_pc = "climb"
    /\ current_universe = PyInt(0)
    /\ wizard_pc' = "done"
    /\ UNCHANGED <<universe_stack, target_cell, current_universe, parent_node>>
    /\ UNCHANGED outputVars
    /\ UNCHANGED selectorVars

\* What the prompts of one parent level leave alone.
ClimbFrame ==
    /\ UNCHANGED <<universe_stack, target_cell, current_universe>>
    /\ UNCHANGED outputVars
    /\ UNCHANGED selectorVars

\* Mutant: the parent node is created with fill_id=parent_cell.
ParentNodeFillsCell(parent_cell, universe) ==
    Node(parent_cell, None, PyInt(parent_cell), FALSE, None)

\* Node(cell_id=parent_cell, fill_id=current_universe)
ParentNode(parent_cell, universe) ==
    Node(parent_cell, None, universe, FALSE, None)

\* The parent cell is not a lattice.
ClimbPlainParent ==
    /\ wizard_pc = "climb"
    /\ current_universe # PyInt(0)
    /\ \E parent_cell \in ParentCells :
           parent_node' = ParentNode(parent_cell, current_universe)
    /\ wizard_pc' = "parent_universe"
    /\ ClimbFrame

\* Mutant: without the visual selector the infinite lattice gets no manual
\* entry.
ClimbInfiniteLatticeNoManual ==
    /\ wizard_pc = "climb"
    /\ current_universe # PyInt(0)
    /\ \E parent_cell \in ParentCells : \E type \in LatticeTypeAnswers :
       \E use_visual \in BOOLEAN : \E bounds \in DialogueWindows :
           LET node == [ParentNode(parent_cell, current_universe) EXCEPT
                            !.is_lattice = TRUE,
                            !.lattice_type = PyInt(type),
                            !.is_infinite_lattice = TRUE]
           IN  IF use_visual
               THEN /\ parent_node' = [node EXCEPT !.lattice_bounds = PyBounds(bounds)]
                    /\ wizard_pc' = "validate"
               ELSE /\ parent_node' = [node EXCEPT !.lattice_bounds = None]
                    /\ wizard_pc' = "parent_universe"
    /\ ClimbFrame

\* The parent cell is a lattice with a simple fill (fill_type == 1): the
\* operator takes the visual selector and enters a viewing window, or not.
ClimbInfiniteLattice ==
    /\ wizard_pc = "climb"
    /\ current_universe # PyInt(0)
    /\ \E parent_cell \in ParentCells : \E type \in LatticeTypeAnswers :
       \E use_visual \in BOOLEAN : \E bounds \in DialogueWindows :
           LET node == [ParentNode(parent_cell, current_universe) EXCEPT
                            !.is_lattice = TRUE,
                            !.lattice_type = PyInt(type),
                            !.is_infinite_lattice = TRUE]
           IN  IF use_visual
               THEN /\ parent_node' = [node EXCEPT !.lattice_bounds = PyBounds(bounds)]
                    /\ wizard_pc' = "validate"
               ELSE /\ parent_node' = [node EXCEPT !.lattice_bounds = None]
                    /\ wizard_pc' = "manual"
    /\ ClimbFrame

\* The parent cell is a lattice with a fully specified fill: the operator
\* enters the bounds and chooses the selection method.
ClimbBoundedLattice ==
    /\ wizard_pc = "climb"
    /\ current_universe # PyInt(0)
    /\ \E parent_cell \in ParentCells : \E type \in LatticeTypeAnswers :
       \E selection_method \in {1, 2} : \E bounds \in DialogueWindows :
           /\ parent_node' = [ParentNode(parent_cell, current_universe) EXCEPT
                                  !.is_lattice = TRUE,
                                  !.lattice_type = PyInt(type),
                                  !.is_infinite_lattice = FALSE,
                                  !.lattice_bounds = PyBounds(bounds)]
           /\ wizard_pc' = IF selection_method = 1 THEN "validate" ELSE "manual"
    /\ ClimbFrame

MAX_CELLS_PER_LAYER == 400
MAX_TOTAL_CELLS == 2000

\* i_size * j_size of the bounds
cells_per_layer(bounds) ==
    (bounds[1][2] - bounds[1][1] + 1) * (bounds[2][2] - bounds[2][1] + 1)

\* cells_per_layer * k_size
total_cells(bounds) ==
    cells_per_layer(bounds) * (bounds[3][2] - bounds[3][1] + 1)

\* _validate_visual_selector_size: True without a question for a window
\* within both thresholds, the operator's answer otherwise.  On False the
\* caller prints "Falling back to manual entry." and calls
\* _manual_lattice_entry.
ValidateVisualSelectorSize ==
    /\ wizard_pc = "validate"
    /\ LET bounds == parent_node.lattice_bounds.win
       IN  \E answer \in BOOLEAN :
               LET valid == IF cells_per_layer(bounds) > MAX_CELLS_PER_LAYER THEN answer
                            ELSE IF total_cells(bounds) > MAX_TOTAL_CELLS THEN answer
                            ELSE TRUE
               IN  wizard_pc' = IF valid THEN "launch" ELSE "manual"
    /\ UNCHANGED parent_node
    /\ ClimbFrame

\* All cells of a window.
WindowCells(bounds) ==
    {<<i, j, k>> : i \in bounds[1][1]..bounds[1][2],
                   j \in bounds[2][1]..bounds[2][2],
                   k \in bounds[3][1]..bounds[3][2]}

\* The selections a session on the window is finalized with: two opposite
\* corners, or the whole window (select all).
SessionSelections(bounds) ==
    {{<<bounds[1][1], bounds[2][1], bounds[3][1]>>,
      <<bounds[1][2], bounds[2][2], bounds[3][2]>>},
     WindowCells(bounds)}

\* How the session of _launch_visual_selector ends: run returns the spec of
\* a non-empty selection, run returns None (q or ESC), or an exception
\* leaves run and the except branch returns None.
SessionResults(bounds) ==
    {[outcome |-> "finalized", result |-> _create_lattice_spec(sel)] :
         sel \in SessionSelections(bounds)}
    \cup {[outcome |-> "cancelled", result |-> None],
          [outcome |-> "raised", result |-> None]}

\* Mutant: the result of the selector is stored as it comes.
LaunchVisualSelectorStoresNone ==
    /\ wizard_pc = "launch"
    /\ \E session \in SessionResults(parent_node.lattice_bounds.win) :
           /\ parent_node' = [parent_node EXCEPT !.lattice_spec = session.result]
           /\ wizard_pc' = "parent_universe"
    /\ ClimbFrame

\* _launch_visual_selector and the "if lattice_spec: ... else: ..." of the
\* caller.
LaunchVisualSelector ==
    /\ wizard_pc = "launch"
    /\ \E session \in SessionResults(parent_node.lattice_bounds.win) :
           IF session.result # None
           THEN /\ parent_node' = [parent_node EXCEPT !.lattice_spec = session.result]
                /\ wizard_pc' = "parent_universe"
           ELSE /\ parent_node' = parent_node
                /\ wizard_pc' = "manual"
    /\ ClimbFrame

\* parent_node.lattice_spec = self._manual_lattice_entry(...)
ManualLatticeEntry ==
    /\ wizard_pc = "manual"
    /\ \E dims \in ManualDimensions :
           parent_node' = [parent_node EXCEPT
                              !.lattice_spec = LatticeSpec(dims[1], dims[2], dims[3], None)]
    /\ wizard_pc' = "parent_universe"
    /\ ClimbFrame

\* Mutant: without the "else: parent_node.universe_id = 0".
AskParentUniverseNoElse ==
    /\ wizard_pc = "parent_universe"
    /\ \E parent_in_universe \in BOOLEAN : \E universe \in UniverseAnswers :
           LET node == IF parent_in_universe
                       THEN [parent_node EXCEPT !.universe_id = PyInt(universe)]
                       ELSE parent_node
           IN  /\ universe_stack' = Append(universe_stack, node)
               /\ IF node.universe_id # PyInt(0) /\ node.universe_id # None
                  THEN wizard_pc' = "climb" /\ current_universe' = node.universe_id
                  ELSE wizard_pc' = "done" /\ current_universe' = current_universe
    /\ parent_node' = None
    /\ UNCHANGED target_cell
    /\ UNCHANGED outputVars
    /\ UNCHANGED selectorVars

\* The end of _climb_universe_stack: the universe of the parent, the append,
\* and the recursive call when the parent is not in universe 0.
AskParentUniverse ==
    /\ wizard_pc = "parent_universe"
    /\ \E parent_in_universe \in BOOLEAN : \E universe \in UniverseAnswers :
           LET node == IF parent_in_universe
                       THEN [parent_node EXCEPT !.universe_id = PyInt(universe)]
                       ELSE [parent_node EXCEPT !.universe_id = PyInt(0)]
           IN  /\ universe_stack' = Append(universe_stack, node)
               /\ IF node.universe_id # PyInt(0)
                  THEN wizard_pc' = "climb" /\ current_universe' = node.universe_id
                  ELSE wizard_pc' = "done" /\ current_universe' = current_universe
    /\ parent_node' = None
    /\ UNCHANGED target_cell
    /\ UNCHANGED outputVars
    /\ UNCHANGED selectorVars

NextDialogue ==
    \/ BuildUniverseStack
    \/ ClimbReturn
    \/ ClimbPlainParent
    \/ ClimbInfiniteLattice
    \/ ClimbBoundedLattice
    \/ ValidateVisualSelectorSize
    \/ LaunchVisualSelector
    \/ ManualLatticeEntry
    \/ AskParentUniverse

SpecDialogue == InitDialogue /\ [][NextDialogue]_vars


(***************************************************************************)
(* Reading a path string back (used by the properties only)                *)
(***************************************************************************)
SepLt == <<" ", "<", " ">>

RECURSIVE SplitFrom(_, _, _)
SplitFrom(s, sep, start) ==
    LET p == Find(s, sep, start)
    IN  IF p = 0 THEN <<SubSeq(s, start, Len(s))>>
        ELSE <<SubSeq(s, start, p - 1)>> \o SplitFrom(s, sep, p + Len(sep))

\* s.split(sep)
Split(s, sep) == SplitFrom(s, sep, 1)

\* s with its first and last n characters removed
Strip(s, n) == SubSeq(s, n + 1, Len(s) - n)

CellsOf(stack) == [n \in 1..Len(stack) |-> stack[n].cell_id]
FlagsOf(stack) == [n \in 1..Len(stack) |-> stack[n].is_lattice]
SpecsOf(stack) == [n \in 1..Len(stack) |-> stack[n].lattice_spec]

\* The lattice nodes of the stack that carry a Discrete spec.
DiscreteNodes(stack) ==
    {n \in 1..Len(stack) :
        /\ stack[n].is_lattice
        /\ stack[n].lattice_spec # None
        /\ stack[n].lattice_spec.elements # None}

\* Scenario A: 5 < 2 < 1, no lattice.
ScenarioA ==
    /\ CellsOf(universe_stack) = <<5, 2, 1>>
    /\ SpecsOf(universe_stack) = <<None, None, None>>

\* Scenario B: 101 < 50 < 1, the lattice node 50 with i=3, j=4, k=0.
ScenarioB ==
    /\ CellsOf(universe_stack) = <<101, 50, 1>>
    /\ FlagsOf(universe_stack) = <<FALSE, TRUE, FALSE>>
    /\ SpecsOf(universe_stack) =
           <<None, LatticeSpec(PyInt(3), PyInt(4), PyInt(0), None), None>>

\* Scenario C: as B, the lattice node with the four corner elements.
ScenarioC ==
    /\ CellsOf(universe_stack) = <<101, 50, 1>>
    /\ FlagsOf(universe_stack) = <<FALSE, TRUE, FALSE>>
    /\ SpecsOf(universe_stack) = <<None, CornerSpec, None>>

(***************************************************************************)
(* C1. For a stack in which one lattice node carries a Discrete spec,      *)
(* the tally path is "( " + the per-element paths, each wrapped as         *)
(* "(" path ")" with no inner padding and joined by one space, + " )";     *)
(* scenario C gives "( (101 < 50[0 0 0] < 1) (101 < 50[9 9 0] < 1)         *)
(* (101 < 50[0 9 0] < 1) (101 < 50[9 0 0] < 1) )".                         *)
(* The code pads every member: "( 101 < 50[0 0 0] < 1 )".                  *)
(***************************************************************************)
C1_UnionMembersUnpadded ==
    (tally_path # None /\ Cardinality(DiscreteNodes(universe_stack)) = 1) =>
        LET n == CHOOSE m \in DiscreteNodes(universe_stack) : TRUE
            elements == universe_stack[n].lattice_spec.elements.items
            members == [e \in 1..Len(elements) |->
                           <<"(">> \o _build_single_path(universe_stack,
                                                        PyElement(elements[e]))
                                   \o <<")">>]
        IN  /\ tally_path.chars = <<"(", " ">> \o Join(<<" ">>, members) \o <<" ", ")">>
            /\ ScenarioC =>
                   Flat(tally_path.chars) =
                       "( (101 < 50[0 0 0] < 1) (101 < 50[9 9 0] < 1) (101 < 50[0 9 0] < 1) (101 < 50[9 0 0] < 1) )"

(***************************************************************************)
(* C2. For every non-empty stack in which no node carries a lattice spec   *)
(* the tally path is "( " + the cell identifiers in stack order joined by  *)
(* " < " + " )", with stack length - 1 separators; scenario A gives        *)
(* "( 5 < 2 < 1 )".                                                        *)
(***************************************************************************)
C2_PlainPath ==
    (/\ tally_path # None
     /\ universe_stack # <<>>
     /\ \A n \in 1..Len(universe_stack) : universe_stack[n].lattice_spec = None) =>
        LET tokens == Split(Strip(tally_path.chars, 2), SepLt)
        IN  /\ SubSeq(tally_path.chars, 1, 2) = <<"(", " ">>
            /\ SubSeq(tally_path.chars, Len(tally_path.chars) - 1, Len(tally_path.chars))
                   = <<" ", ")">>
            /\ tokens = [n \in 1..Len(universe_stack) |->
                            StrInt(universe_stack[n].cell_id)]
            /\ Count(tally_path.chars, SepLt) = Len(universe_stack) - 1
            /\ ScenarioA => Flat(tally_path.chars) = "( 5 < 2 < 1 )"

C2_Witness ==
    /\ tally_path # None
    /\ ScenarioA
    /\ Flat(tally_path.chars) = "( 5 < 2 < 1 )"

(***************************************************************************)
(* C3. A lattice node at index >= 1 whose spec is Contiguous is rendered   *)
(* as its cell identifier immediately followed by "[i j k]", each          *)
(* dimension "n" or "min:max", separated by single spaces and never by     *)
(* commas, single and range dimensions mixed freely; scenario B gives      *)
(* "( 101 < 50[3 4 0] < 1 )".                                              *)
(***************************************************************************)
\* "n" or "min:max"
DimText(d) ==
    IF d.tag = "tuple" THEN StrInt(d.pair[1]) \o <<":">> \o StrInt(d.pair[2])
    ELSE StrInt(d.n)

\* The paths a tally path lists: one, or the members of a union.
MemberPaths(path, stack) ==
    IF DiscreteNodes(stack) = {} THEN <<Strip(path, 2)>>
    ELSE IF Len(path) <= 4 THEN <<>>
    ELSE Split(Strip(path, 4), <<" ", ")", " ", "(", " ">>)

C3_ContiguousToken ==
    tally_path # None =>
        /\ \A c \in 1..Len(tally_path.chars) : tally_path.chars[c] # ","
        /\ \A n \in 2..Len(universe_stack) :
               LET node == universe_stack[n]
                   spec == node.lattice_spec
                   paths == MemberPaths(tally_path.chars, universe_stack)
               IN  (node.is_lattice /\ spec # None /\ spec.elements = None) =>
                       \A p \in 1..Len(paths) :
                           Split(paths[p], SepLt)[n] =
                               StrInt(node.cell_id) \o <<"[">> \o DimText(spec.i)
                                   \o <<" ">> \o DimText(spec.j)
                                   \o <<" ">> \o DimText(spec.k) \o <<"]">>
        /\ ScenarioB => Flat(tally_path.chars) = "( 101 < 50[3 4 0] < 1 )"

\* A rendered stack holding a contiguous lattice node with a range on i and
\* k and a single index on j, below another contiguous lattice node.
C3_Witness ==
    /\ tally_path # None
    /\ Len(universe_stack) = 3
    /\ universe_stack[2].is_lattice
    /\ universe_stack[2].lattice_spec =
           LatticeSpec(PyTuple(0, 9), PyInt(4), PyTuple(0, 2), None)
    /\ universe_stack[3].is_lattice
    /\ universe_stack[3].lattice_spec =
           LatticeSpec(PyInt(3), PyTuple(-2, 2), PyInt(0), None)
    /\ Flat(tally_path.chars) = "( 101 < 50[0:9 4 0:2] < 50[3 -2:2 0] )"

(***************************************************************************)
(* C4. For every stack, the empty and the one-node stack included, the     *)
(* SD-card check is true iff at least one node at an index other than 0    *)
(* has the lattice flag set; the flag of the index-0 node and the lattice  *)
(* specs do not affect the result.                                         *)
(***************************************************************************)
\* The stack with the lattice flag of the target node set to b.
WithTargetFlag(stack, b) ==
    [n \in 1..Len(stack) |->
        IF n = 1 THEN [stack[n] EXCEPT !.is_lattice = b] ELSE stack[n]]

\* The stack with every lattice spec removed.
WithoutSpecs(stack) ==
    [n \in 1..Len(stack) |-> [stack[n] EXCEPT !.lattice_spec = None]]

C4_NeedsSdIffLatticeAboveTarget ==
    needs_sd # None =>
        /\ needs_sd.b <=>
               (\E n \in 1..Len(universe_stack) :
                    n # 1 /\ universe_stack[n].is_lattice)
        /\ \A b \in BOOLEAN :
               _check_needs_sd_card(WithTargetFlag(universe_stack, b)) = needs_sd.b
        /\ _check_needs_sd_card(WithoutSpecs(universe_stack)) = needs_sd.b

\* A one-node stack whose only node is a lattice with a spec: no SD card.
C4_Witness ==
    /\ needs_sd # None
    /\ Len(universe_stack) = 1
    /\ universe_stack[1].is_lattice
    /\ universe_stack[1].lattice_spec # None
    /\ needs_sd.b = FALSE

C4_WitnessEmpty ==
    /\ needs_sd # None
    /\ universe_stack = <<>>
    /\ needs_sd.b = FALSE

(***************************************************************************)
(* C5. As claimed: the SD-card check is true iff some node other than the  *)
(* root node (the last node of the stack) has the lattice flag set; a      *)
(* stack whose only lattice node is the root yields false.                 *)
(***************************************************************************)
C5_NeedsSdIffLatticeBelowRoot ==
    needs_sd # None =>
        (needs_sd.b <=>
            (\E n \in 1..(Len(universe_stack) - 1) : universe_stack[n].is_lattice))

(***************************************************************************)
(* C5, amended.  The node left out is the target (index 0), not the root:  *)
(* the check is true if and only if some node above the target, a middle   *)
(* node or the root, is a lattice.  So it is false for a stack without     *)
(* lattice nodes and for a stack whose only lattice node is the target,    *)
(* and true for a stack of two or more nodes whose only lattice node is    *)
(* the root.                                                               *)
(***************************************************************************)
LatticeNodes(stack) == {n \in 1..Len(stack) : stack[n].is_lattice}

C5_NeedsSdIffLatticeAboveTargetRootIncluded ==
    needs_sd # None =>
        /\ needs_sd.b <=> (LatticeNodes(universe_stack) \ {1} # {})
        /\ LatticeNodes(universe_stack) = {} => needs_sd.b = FALSE
        /\ LatticeNodes(universe_stack) = {1} => needs_sd.b = FALSE
        /\ (/\ Len(universe_stack) >= 2
            /\ LatticeNodes(universe_stack) = {Len(universe_stack)})
               => needs_sd.b = TRUE

\* The only lattice node is the root of a three-node stack: SD card needed.
C5_Witness ==
    /\ needs_sd # None
    /\ Len(universe_stack) = 3
    /\ LatticeNodes(universe_stack) = {3}
    /\ needs_sd.b = TRUE

(***************************************************************************)
(* C6. As claimed: no LatticeSpec holding a range with min > max exists,   *)
(* so none reaches the path builder.  The dataclass validates nothing:     *)
(* LatticeSpec(i=0, j=(5, 2), k=0) is built and rendered as "[0 5:2 0]".   *)
(***************************************************************************)
RangeOk(d) == d.tag = "tuple" => d.pair[1] <= d.pair[2]

C6_NoInvertedRangeReachesBuilder ==
    tally_path # None =>
        \A n \in 1..Len(universe_stack) :
            LET spec == universe_stack[n].lattice_spec
            IN  spec # None => RangeOk(spec.i) /\ RangeOk(spec.j) /\ RangeOk(spec.k)

(***************************************************************************)
(* C7. As claimed: every Discrete spec that exists is non-empty and the    *)
(* tally path is never a union of zero paths.  LatticeSpec(elements=[])    *)
(* is built without error and gives the path "(  )".                       *)
(***************************************************************************)
C7_NoEmptyUnion ==
    tally_path # None =>
        /\ \A n \in 1..Len(universe_stack) :
               LET spec == universe_stack[n].lattice_spec
               IN  (spec # None /\ spec.elements # None) => spec.elements.items # <<>>
        /\ tally_path.chars # <<"(", " ", " ", ")">>

(***************************************************************************)
(* Selector session states and what finalize is measured against           *)
(***************************************************************************)
\* run is in its loop: waiting for a key, or for the key that dismisses the
\* error message.
Active == pc \in {"getch", "error_getch"}

Finalized == pc = "returned" /\ run_result # None

\* The axis-aligned bounding box of a non-empty set of triples, taken over
\* i, j and k jointly.
BoundingBox(sel) ==
    {<<i, j, k>> :
        i \in Min({c[1] : c \in sel})..Max({c[1] : c \in sel}),
        j \in Min({c[2] : c \in sel})..Max({c[2] : c \in sel}),
        k \in Min({c[3] : c \in sel})..Max({c[3] : c \in sel})}

\* The axis of a Contiguous spec over the values vals of the selection.
AxisOf(vals) ==
    IF Min(vals) = Max(vals) THEN [tag |-> "int", n |-> Min(vals)]
    ELSE [tag |-> "tuple", pair |-> <<Min(vals), Max(vals)>>]

(***************************************************************************)
(* C8. A finalize request (d) on an Active selector whose selection is     *)
(* empty returns no LatticeSpec: the selector shows the error and stays    *)
(* Active, with cursor, layer and the empty selection unchanged, and the   *)
(* key after the error brings it back to editing, still unchanged.         *)
(***************************************************************************)
C8_EmptyFinalizeStaysActive ==
    [][/\ (KeyDone /\ selected = {}) =>
              /\ pc' = "error_getch"
              /\ run_result' = None
              /\ UNCHANGED <<cursor_i, cursor_j, current_k, selected>>
       /\ pc = "error_getch" =>
              /\ selected = {}
              /\ run_result = None
              /\ pc' = "getch"
              /\ UNCHANGED <<cursor_i, cursor_j, current_k, selected, run_result>>
      ]_vars

\* The error is on display after the cursor and the layer were moved and a
\* selection was made and cleared again.
C8_Witness ==
    /\ pc = "error_getch"
    /\ selected = {}
    /\ run_result = None
    /\ cursor_i # (i_bounds[1] + i_bounds[2]) \div 2
    /\ current_k # (k_bounds[1] + k_bounds[2]) \div 2

(***************************************************************************)
(* C9. For every non-empty selection, finalize returns a Contiguous spec   *)
(* iff the selection equals the bounding box of the selected triples over  *)
(* i, j and k jointly; each axis of that spec is the single value min when *)
(* min = max and the range (min, max) otherwise.  The same i-j box on      *)
(* layers k=0 and k=2 without k=1 is not contiguous.                       *)
(***************************************************************************)
C9_ContiguousIffBoundingBox ==
    Finalized =>
        /\ selected # {}
        /\ run_result.elements = None <=> selected = BoundingBox(selected)
        /\ run_result.elements = None =>
               /\ run_result.i = AxisOf({c[1] : c \in selected})
               /\ run_result.j = AxisOf({c[2] : c \in selected})
               /\ run_result.k = AxisOf({c[3] : c \in selected})

\* The i-range 0..1 selected on layers 0 and 2, not on layer 1: Discrete.
C9_Witness ==
    /\ pc = "returned"
    /\ selected = {<<0, 0, 0>>, <<1, 0, 0>>, <<0, 0, 2>>, <<1, 0, 2>>}
    /\ run_result # None
    /\ run_result.elements # None

\* A full box spanning two layers: Contiguous with a range on i and on k.
C9_WitnessContiguous ==
    /\ pc = "returned"
    /\ selected = {<<0, 0, 1>>, <<1, 0, 1>>, <<0, 0, 2>>, <<1, 0, 2>>}
    /\ run_result = LatticeSpec(PyTuple(0, 1), PyInt(0), PyTuple(1, 2), None)

(***************************************************************************)
(* C10. Finalize on a non-empty, non-contiguous selection returns a        *)
(* Discrete spec whose element list holds exactly the selected triples,    *)
(* each once, in ascending lexicographic order of (i, j, k), negative      *)
(* indices included.                                                       *)
(***************************************************************************)
\* a comes before b: at the first axis where they differ, a is smaller.
LexBefore(a, b) ==
    \E axis \in 1..3 :
        /\ a[axis] < b[axis]
        /\ \A earlier \in 1..(axis - 1) : a[earlier] = b[earlier]

C10_DiscreteSortedExactly ==
    (Finalized /\ selected # BoundingBox(selected)) =>
        /\ run_result.elements # None
        /\ LET items == run_result.elements.items
           IN  /\ {items[p] : p \in 1..Len(items)} = selected
               /\ Len(items) = Cardinality(selected)
               /\ \A p \in 1..Len(items) : \A q \in 1..Len(items) :
                      p < q => LexBefore(items[p], items[q])

\* Three cells with negative i and j, returned in ascending order.
C10_Witness ==
    /\ pc = "returned"
    /\ run_result # None
    /\ run_result.elements # None
    /\ run_result.elements.items = <<<<-1, -1, 0>>, <<-1, 1, 0>>, <<0, 0, 0>>>>
    /\ selected = {<<0, 0, 0>>, <<-1, 1, 0>>, <<-1, -1, 0>>}

(***************************************************************************)
(* C11. Round trip through the selector.  A finalized selection that is    *)
(* every cell of an axis-aligned box gives a Contiguous spec whose         *)
(* element_count is the volume of the box.  A finalized selection that is  *)
(* such a box less one cell whose removal leaves the extent of the box     *)
(* unchanged (any interior cell is one) gives a Discrete spec with         *)
(* volume - 1 elements in ascending order.                                 *)
(***************************************************************************)
\* The volume of the bounding box, counted cell by cell.
BoxVolume(sel) == Cardinality(BoundingBox(sel))

\* c lies strictly inside the box on every axis along which the box
\* extends, and the box extends along at least one.
InteriorCell(c, box) ==
    /\ c \in box
    /\ \E axis \in 1..3 : \E d \in box : d[axis] # c[axis]
    /\ \A axis \in 1..3 :
           (\E d \in box : d[axis] # c[axis]) =>
               /\ \E d \in box : d[axis] < c[axis]
               /\ \E d \in box : d[axis] > c[axis]

C11_BoxRoundTrip ==
    Finalized =>
        /\ selected = BoundingBox(selected) =>
               /\ run_result.elements = None
               /\ element_count(run_result) = BoxVolume(selected)
        /\ Cardinality(BoundingBox(selected) \ selected) = 1 =>
               /\ run_result.elements # None
               /\ element_count(run_result) = BoxVolume(selected) - 1
               /\ Len(get_all_elements(run_result)) = BoxVolume(selected) - 1
               /\ \A p \in 1..(Len(run_result.elements.items) - 1) :
                      LexBefore(run_result.elements.items[p],
                                run_result.elements.items[p + 1])

\* The 3 x 3 box of one layer less its centre: eight elements, ascending.
C11_Witness ==
    /\ Finalized
    /\ BoundingBox(selected) \ selected = {<<1, 1, 0>>}
    /\ InteriorCell(<<1, 1, 0>>, BoundingBox(selected))
    /\ BoxVolume(selected) = 9
    /\ element_count(run_result) = 8
    /\ run_result.elements.items =
           <<<<0, 0, 0>>, <<0, 1, 0>>, <<0, 2, 0>>, <<1, 0, 0>>,
             <<1, 2, 0>>, <<2, 0, 0>>, <<2, 1, 0>>, <<2, 2, 0>>>>

\* A full box of six cells over two axes: Contiguous, element_count 6.
C11_WitnessBox ==
    /\ Finalized
    /\ selected = BoundingBox(selected)
    /\ run_result = LatticeSpec(PyTuple(0, 1), PyInt(0), PyTuple(0, 2), None)
    /\ element_count(run_result) = 6

(***************************************************************************)
(* C12. Hexagonal neighbour moves are locally invertible: for every cell   *)
(* (i, j), j even or odd, positive, zero or negative, the neighbour in a   *)
(* direction followed by the neighbour in the opposite direction (E/W,     *)
(* NE/SW, NW/SE) is (i, j) again; and whenever a hexagonal move key of the *)
(* selector moved the cursor, the opposite move from the new position is   *)
(* within the bounds and leads back to the old position.                   *)
(***************************************************************************)
HexDirections == {"E", "W", "NE", "NW", "SE", "SW"}

Opposite(direction) ==
    CASE direction = "E" -> "W"
      [] direction = "W" -> "E"
      [] direction = "NE" -> "SW"
      [] direction = "SW" -> "NE"
      [] direction = "NW" -> "SE"
      [] direction = "SE" -> "NW"

\* The step is the press of a key that moves in the direction on a
\* hexagonal lattice.
HexKeyStep(direction) ==
    /\ lattice_type = 2
    /\ CASE direction = "E" -> KeyRight
         [] direction = "W" -> KeyLeft
         [] direction = "NE" -> KeyE
         [] direction = "SW" -> KeyZ
         [] direction = "NW" -> KeyUp \/ KeyW
         [] direction = "SE" -> KeyDown \/ KeyX

\* The first half does not depend on the state: it is evaluated on the steps
\* taken with an empty selection.
C12_HexMovesInvertible ==
    [][/\ selected = {} =>
              \A i \in -3..3 : \A j \in -3..3 : \A d \in HexDirections :
                  LET there == _get_hex_neighbor(i, j, d)
                  IN  _get_hex_neighbor(there[1], there[2], Opposite(d)) = <<i, j>>
       /\ \A d \in HexDirections :
              (HexKeyStep(d) /\ <<cursor_i', cursor_j'>> # <<cursor_i, cursor_j>>) =>
                  LET back == _get_hex_neighbor(cursor_i', cursor_j', Opposite(d))
                  IN  /\ <<cursor_i', cursor_j'>> =
                             _get_hex_neighbor(cursor_i, cursor_j, d)
                      /\ back = <<cursor_i, cursor_j>>
                      /\ InBounds(back[1], back[2])
      ]_vars

\* A hexagonal selector whose cursor was moved from the even row 0 of its
\* start, (-1, 0), up to the odd row -1 and along it.
C12_Witness ==
    /\ lattice_type = 2
    /\ pc = "getch"
    /\ i_bounds = <<-1, 0>>
    /\ cursor_i = 0
    /\ cursor_j = -1
    /\ _get_hex_neighbor(cursor_i, cursor_j, "SW") = <<0, 0>>
    /\ _get_hex_neighbor(0, 0, "NE") = <<cursor_i, cursor_j>>

(***************************************************************************)
(* C13. In every reachable state of a selector created with min <= max on  *)
(* each axis, rectangular or hexagonal, the cursor (i, j) is inside the i  *)
(* and j bounds and the current layer k inside the k bounds; a move or     *)
(* layer change whose target is outside the bounds leaves the position     *)
(* unchanged, one whose target is inside goes there.                       *)
(***************************************************************************)
CursorInWindow ==
    /\ i_bounds[1] <= cursor_i /\ cursor_i <= i_bounds[2]
    /\ j_bounds[1] <= cursor_j /\ cursor_j <= j_bounds[2]
    /\ k_bounds[1] <= current_k /\ current_k <= k_bounds[2]

\* <<i, j, k>> lies inside the three bounds.
InsideWindow(position) ==
    /\ i_bounds[1] <= position[1] /\ position[1] <= i_bounds[2]
    /\ j_bounds[1] <= position[2] /\ position[2] <= j_bounds[2]
    /\ k_bounds[1] <= position[3] /\ position[3] <= k_bounds[2]

\* The position a rectangular move by (di, dj) or a hexagonal move in the
\* direction aims at.
MoveTarget(di, dj, direction) ==
    IF lattice_type = 2
    THEN LET new == _get_hex_neighbor(cursor_i, cursor_j, direction)
         IN  <<new[1], new[2], current_k>>
    ELSE <<cursor_i + di, cursor_j + dj, current_k>>

\* The step either reaches the target, when it is inside the bounds, or
\* leaves the position as it is.
ReachesOrStays(target) ==
    IF InsideWindow(target)
    THEN <<cursor_i', cursor_j', current_k'>> = target
    ELSE <<cursor_i', cursor_j', current_k'>> = <<cursor_i, cursor_j, current_k>>

C13_PositionWithinBounds ==
    /\ CursorInWindow
    /\ [][/\ CursorInWindow'
          /\ KeyUp => ReachesOrStays(MoveTarget(0, -1, "NW"))
          /\ KeyDown => ReachesOrStays(MoveTarget(0, 1, "SE"))
          /\ KeyLeft => ReachesOrStays(MoveTarget(-1, 0, "W"))
          /\ KeyRight => ReachesOrStays(MoveTarget(1, 0, "E"))
          /\ (KeyE /\ lattice_type = 2) => ReachesOrStays(MoveTarget(0, 0, "NE"))
          /\ (KeyZ /\ lattice_type = 2) => ReachesOrStays(MoveTarget(0, 0, "SW"))
          /\ KeyLayerDown => ReachesOrStays(<<cursor_i, cursor_j, current_k - 1>>)
          /\ KeyLayerUp => ReachesOrStays(<<cursor_i, cursor_j, current_k + 1>>)
         ]_vars

\* A rectangular selector moved to the upper i bound and the top layer: the
\* next move right and the next layer up aim outside.
C13_Witness ==
    /\ lattice_type = 1
    /\ pc = "getch"
    /\ i_bounds = <<0, 1>> /\ k_bounds = <<0, 2>>
    /\ cursor_i = 1
    /\ current_k = 2
    /\ ~InsideWindow(<<cursor_i + 1, cursor_j, current_k>>)
    /\ ~InsideWindow(<<cursor_i, cursor_j, current_k + 1>>)

\* A hexagonal selector moved to the corner (0, 1) of its window: the
\* neighbours to the east and south-east are outside.
C13_WitnessHex ==
    /\ lattice_type = 2
    /\ pc = "getch"
    /\ i_bounds = <<-1, 0>> /\ j_bounds = <<-1, 1>>
    /\ cursor_i = 0
    /\ cursor_j = 1
    /\ ~InBounds(_get_hex_neighbor(cursor_i, cursor_j, "E")[1],
                 _get_hex_neighbor(cursor_i, cursor_j, "E")[2])

(***************************************************************************)
(* C14. As claimed: a selector session has exactly three states.  It is    *)
(* Active from its creation until a finalize with a non-empty selection    *)
(* (Finalized, a LatticeSpec is returned) or a cancel (Cancelled, nothing  *)
(* is returned); Finalized and Cancelled are terminal; the outcome is a    *)
(* spec iff the session ended Finalized.                                   *)
(* The code has one more way out of Active: _draw_interface raises         *)
(* curses.error outside every try (see C16) and run ends with the          *)
(* exception, neither finalized nor cancelled by the operator.             *)
(***************************************************************************)
Cancelled == pc = "returned" /\ run_result = None

C14_ThreeSessionStates ==
    /\ Active
    /\ [][/\ ~(Finalized \/ Cancelled)
          /\ Active' \/ Finalized' \/ Cancelled'
          /\ (Active /\ ~Active') =>
                 \/ KeyDone /\ selected # {} /\ Finalized'
                 \/ KeyCancel /\ Cancelled'
          /\ run_result' # None <=> Finalized'
         ]_vars

(***************************************************************************)
(* C16. As claimed: a rendering failure leaves the selector as it was and  *)
(* the session Active: on a terminal too small for what is drawn, the      *)
(* session goes on reading keys, it ends only by the operator's cancel or  *)
(* finalize, and a resize keeps selection, cursor and layer.               *)
(* The code does so when the grid does not fit (the curses.error is caught *)
(* in _draw_rectangular_lattice and _draw_hexagonal_lattice_compact), not  *)
(* when the title, instruction or info line does not fit: run ends with    *)
(* the exception, and _launch_visual_selector returns None, the selection  *)
(* dropped.                                                                *)
(***************************************************************************)
RenderFailure == pc = "getch" /\ term # "fits"

C16_RenderFailureKeepsSession ==
    [][RenderFailure =>
           /\ pc' # "raised"
           /\ Active' \/ KeyCancel \/ (KeyDone /\ selected # {})
           /\ term' # term =>
                  /\ Active'
                  /\ UNCHANGED <<selected, cursor_i, cursor_j, current_k>>
      ]_vars

(***************************************************************************)
(* C15. Cancellation is safe: when the selector session ends without a     *)
(* spec (cancel, or an exception inside the selector) or the operator      *)
(* declines at the size guard, the next prompt is the manual entry for the *)
(* same parent node, with the stack as it was; the manual entry gives the  *)
(* node a spec and the dialogue goes on to the parent's universe.  The     *)
(* dialogue is always at one of its prompts or done, and no lattice node   *)
(* reaches the universe prompt or the stack without a spec.                *)
(***************************************************************************)
DialoguePositions ==
    {"start", "climb", "validate", "launch", "manual", "parent_universe", "done"}

LatticeNodesHaveSpec(stack) ==
    \A n \in 1..Len(stack) : stack[n].is_lattice => HasSpec(stack[n])

C15_CancellationSafe ==
    [][/\ (wizard_pc = "launch" /\ parent_node'.lattice_spec = None) =>
              /\ wizard_pc' = "manual"
              /\ UNCHANGED <<universe_stack, parent_node>>
       /\ (wizard_pc = "validate" /\ wizard_pc' # "launch") =>
              /\ wizard_pc' = "manual"
              /\ UNCHANGED <<universe_stack, parent_node>>
       /\ wizard_pc = "manual" =>
              /\ wizard_pc' = "parent_universe"
              /\ HasSpec(parent_node')
              /\ parent_node' = [parent_node EXCEPT
                                    !.lattice_spec = parent_node'.lattice_spec]
              /\ UNCHANGED universe_stack
       /\ (wizard_pc' = "parent_universe" /\ parent_node'.is_lattice) =>
              HasSpec(parent_node')
       /\ LatticeNodesHaveSpec(universe_stack')
       /\ wizard_pc' \in DialoguePositions
      ]_vars

\* A finished stack with a lattice node whose session on the small viewing
\* window gave no spec: its spec is the manually entered one, which no
\* selection inside that window produces.
C15_Witness ==
    /\ wizard_pc = "done"
    /\ \E n \in 1..Len(universe_stack) :
           /\ universe_stack[n].is_infinite_lattice
           /\ universe_stack[n].lattice_bounds =
                  PyBounds(<<<<0, 1>>, <<0, 0>>, <<0, 2>>>>)
           /\ universe_stack[n].lattice_spec =
                  LatticeSpec(PyTuple(0, 9), PyInt(4), PyInt(0), None)

(***************************************************************************)
(* C17. After every append, each node above the target is filled by the    *)
(* universe of the node before it in the stack:                            *)
(* stack[n+1].fill_id = stack[n].universe_id; the parent node being        *)
(* described is filled by the universe of the last node.                   *)
(***************************************************************************)
C17_FillUniverseChain ==
    /\ \A n \in 1..(Len(universe_stack) - 1) :
           universe_stack[n + 1].fill_id = universe_stack[n].universe_id
    /\ parent_node # None =>
           parent_node.fill_id = universe_stack[Len(universe_stack)].universe_id

C17_Witness ==
    /\ wizard_pc = "done"
    /\ Len(universe_stack) = 3
    /\ universe_stack[1].universe_id = PyInt(5)
    /\ universe_stack[2].fill_id = PyInt(5)
    /\ universe_stack[2].universe_id = PyInt(100)
    /\ universe_stack[3].fill_id = PyInt(100)

(***************************************************************************)
(* C18. The stack ends exactly at universe 0: when the dialogue is done    *)
(* the stack is non-empty, its last node is in universe 0 and no earlier   *)
(* node is; at no time is a node appended after a node in universe 0; the stack  *)
(* grows by appending one node, at the target prompt or at the prompt for  *)
(* the universe of a parent.                                               *)
(***************************************************************************)
EndsAtUniverseZero ==
    /\ \A n \in 1..(Len(universe_stack) - 1) :
           universe_stack[n].universe_id # PyInt(0)
    /\ wizard_pc = "done" =>
           /\ universe_stack # <<>>
           /\ universe_stack[Len(universe_stack)].universe_id = PyInt(0)

C18_StackEndsAtUniverseZero ==
    /\ EndsAtUniverseZero
    /\ [][/\ EndsAtUniverseZero'
          /\ universe_stack' # universe_stack =>
                 /\ Len(universe_stack') = Len(universe_stack) + 1
                 /\ SubSeq(universe_stack', 1, Len(universe_stack)) = universe_stack
                 /\ wizard_pc \in {"start", "parent_universe"}
          /\ wizard_pc = "done" => UNCHANGED universe_stack
         ]_vars

\* Two levels climbed: three nodes, the last one in universe 0.
C18_Witness ==
    /\ wizard_pc = "done"
    /\ Len(universe_stack) = 3
    /\ universe_stack[3].universe_id = PyInt(0)
    /\ universe_stack[3].is_lattice

\* The operator said the target is in a universe and entered 0: the climb
\* is entered with universe 0 and returns at once.
C18_WitnessYesThenZero ==
    /\ wizard_pc = "climb"
    /\ current_universe = PyInt(0)
    /\ Len(universe_stack) = 1

(***************************************************************************)
(* C19. A Contiguous spec is never expanded: get_all_elements gives no     *)
(* element for it, and for a stack whose specs are all Contiguous the      *)
(* tally path is one parenthesised path, one token per node, in which      *)
(* every lattice node above the target carries its cell and one range      *)
(* token "[i j k]", whatever the number of elements the ranges span.       *)
(***************************************************************************)
\* "not self._has_non_contiguous_lattice()": the spec of every lattice node
\* that has one is Contiguous.
AllSpecsContiguous(stack) ==
    \A n \in 1..Len(stack) :
        (stack[n].is_lattice /\ HasSpec(stack[n])) =>
            is_contiguous(stack[n].lattice_spec)

RangeToken(spec) ==
    <<"[">> \o format_dimension(spec.i) \o <<" ">> \o format_dimension(spec.j)
            \o <<" ">> \o format_dimension(spec.k) \o <<"]">>

C19_ContiguousNeverExpanded ==
    (/\ tally_path # None
     /\ universe_stack # <<>>
     /\ AllSpecsContiguous(universe_stack)) =>
        LET path == tally_path.chars
            tokens == Split(Strip(path, 2), SepLt)
        IN  /\ \A n \in 1..Len(universe_stack) :
                   (/\ HasSpec(universe_stack[n])
                    /\ is_contiguous(universe_stack[n].lattice_spec)) =>
                       get_all_elements(universe_stack[n].lattice_spec) = <<>>
            /\ SubSeq(path, 1, 2) = <<"(", " ">>
            /\ SubSeq(path, Len(path) - 1, Len(path)) = <<" ", ")">>
            /\ Count(path, <<"(">>) = 1
            /\ Count(path, <<")">>) = 1
            /\ Len(tokens) = Len(universe_stack)
            /\ \A n \in 2..Len(universe_stack) :
                   LET node == universe_stack[n]
                   IN  tokens[n] =
                           IF node.is_lattice /\ HasSpec(node)
                           THEN StrInt(node.cell_id) \o RangeToken(node.lattice_spec)
                           ELSE StrInt(node.cell_id)

\* The spec of select all on the window 0..9 x -2..2 x 0..2, finalized:
\* 150 elements, one path with one range token.
C19_Witness ==
    /\ Len(universe_stack) = 3
    /\ universe_stack[2].is_lattice
    /\ universe_stack[2].lattice_spec =
           _create_lattice_spec(WindowCells(<<<<0, 9>>, <<-2, 2>>, <<0, 2>>>>))
    /\ element_count(universe_stack[2].lattice_spec) = 150
    /\ tally_path = PyStr(<<"(", " ", "1", "0", "1", " ", "<", " ", "5", "0",
                            "[", "0", ":", "9", " ", "-", "2", ":", "2", " ",
                            "0", ":", "2", "]", " ", "<", " ", "1", " ", ")">>)

(***************************************************************************)
(* C20. The SP card carries one "1" per path listed on the SI card: one    *)
(* when no lattice node of the stack is Discrete; otherwise as many as the *)
(* first Discrete lattice node has elements, the SI card listing one       *)
(* parenthesised path per element, the p-th path carrying the index of the *)
(* p-th element at that node.                                              *)
(***************************************************************************)
DiscreteLatticeNodes(stack) ==
    {n \in 1..Len(stack) :
        /\ stack[n].is_lattice /\ HasSpec(stack[n])
        /\ is_non_contiguous(stack[n].lattice_spec)}

\* The paths listed on an SI card: what follows each " (".
SiPaths(card) == Tail(Split(card, <<" ", "(">>))

\* The entries of an SP card after its name.
SpEntries(card) == Tail(Split(card, <<" ">>))

C20_SpOnePerSiPath ==
    sp_card # None =>
        LET paths == SiPaths(si_card.chars)
            entries == SelectSeq(SpEntries(sp_card.chars), LAMBDA e : e # <<>>)
            discrete == DiscreteLatticeNodes(universe_stack)
        IN  /\ \A e \in 1..Len(entries) : entries[e] = <<"1">>
            /\ Len(entries) = Len(paths)
            /\ Len(paths) = Count(si_card.chars, <<"(">>)
            /\ discrete = {} => Len(entries) = 1
            /\ discrete # {} =>
                   LET first == CHOOSE n \in discrete : \A m \in discrete : n <= m
                       elements == universe_stack[first].lattice_spec.elements.items
                   IN  /\ Len(entries) = Len(elements)
                       /\ \A p \in 1..Len(paths) :
                              /\ paths[p][Len(paths[p])] = ")"
                              /\ first > 1 =>
                                     Split(paths[p], SepLt)[first] =
                                         StrInt(universe_stack[first].cell_id)
                                             \o to_mcnp_single_index(elements[p])
                                             \o (IF first = Len(universe_stack)
                                                 THEN <<")">> ELSE <<>>)

C20_Witness ==
    /\ sp_card # None
    /\ Len(universe_stack) = 3
    /\ Flat(si_card.chars) =
           "SI12 L (101 < 50[0 0 0] < 1) (101 < 50[9 9 0] < 1) (101 < 50[0 9 0] < 1) (101 < 50[9 0 0] < 1)"
    /\ Flat(sp_card.chars) = "SP12 1 1 1 1"

(***************************************************************************)
(* C21. _build_single_path writes one token per node, joined by " < ".     *)
(* The token of a node above the target is its cell identifier, extended,  *)
(* when the node is a lattice node, by the override element's index when   *)
(* an override is given and the spec is Discrete, by the range token when  *)
(* the spec is Contiguous, and by nothing otherwise.  The token of the     *)
(* target (index 0) is always the bare cell identifier.                    *)
(***************************************************************************)
\* The overrides a stack gives rise to: none, and every element of a
\* Discrete spec it holds.
Overrides(stack) ==
    {None} \cup
    UNION {{PyElement(stack[n].lattice_spec.elements.items[e]) :
                e \in 1..Len(stack[n].lattice_spec.elements.items)} :
           n \in {m \in 1..Len(stack) :
                      HasSpec(stack[m]) /\ is_non_contiguous(stack[m].lattice_spec)}}

\* The token the claim gives a node.
ClaimedToken(node, override) ==
    StrInt(node.cell_id) \o
    (IF ~node.is_lattice THEN <<>>
     ELSE IF override # None /\ HasSpec(node) /\ is_non_contiguous(node.lattice_spec)
          THEN <<"[">> \o StrInt(override.ijk[1]) \o <<" ">>
                   \o StrInt(override.ijk[2]) \o <<" ">>
                   \o StrInt(override.ijk[3]) \o <<"]">>
     ELSE IF HasSpec(node) /\ is_contiguous(node.lattice_spec)
          THEN RangeToken(node.lattice_spec)
     ELSE <<>>)

C21_SinglePathTargetBare ==
    universe_stack # <<>> =>
        \A override \in Overrides(universe_stack) :
            _build_single_path(universe_stack, override) =
                Join(SepLt, [n \in 1..Len(universe_stack) |->
                                IF n = 1 THEN StrInt(universe_stack[1].cell_id)
                                ELSE ClaimedToken(universe_stack[n], override)])

\* As claimed: the target is treated like every other node.
C21_SinglePathAllNodesAlike ==
    universe_stack # <<>> =>
        \A override \in Overrides(universe_stack) :
            _build_single_path(universe_stack, override) =
                Join(SepLt, [n \in 1..Len(universe_stack) |->
                                ClaimedToken(universe_stack[n], override)])

\* A lattice target with a Contiguous spec under a lattice parent with a
\* Contiguous spec: the parent carries its range, the target does not.
C21_Witness ==
    /\ Len(universe_stack) = 3
    /\ universe_stack[1].is_lattice
    /\ universe_stack[1].lattice_spec = LatticeSpec(PyInt(3), PyInt(4), PyInt(0), None)
    /\ universe_stack[2].is_lattice
    /\ tally_path = PyStr(<<"(", " ", "5", "0", " ", "<", " ", "5", "0",
                            "[", "0", ":", "9", " ", "4", " ", "0", "]",
                            " ", "<", " ", "1", " ", ")">>)

(***************************************************************************)
(* C22. As claimed: when more than one lattice node of the stack carries a *)
(* Discrete spec, the tally path has one path per element of the first     *)
(* such node, and the other Discrete nodes are ignored: they are written   *)
(* as the bare cell identifier and add no path.                            *)
(* The code passes the element of the first Discrete node to               *)
(* _build_single_path, which writes it as the index of every lattice node  *)
(* above the target whose spec is Discrete.                                *)
(***************************************************************************)
\* The member paths of a union "( ( p1 ) ( p2 ) ... )".
UnionPaths(path) ==
    LET inner == Strip(path, 2)
    IN  IF Len(inner) < 4 THEN <<>>
        ELSE Split(Strip(inner, 2), <<" ", ")", " ", "(", " ">>)

C22_OnlyFirstDiscreteHonoured ==
    (tally_path # None /\ Cardinality(DiscreteLatticeNodes(universe_stack)) > 1) =>
        LET discrete == DiscreteLatticeNodes(universe_stack)
            first == CHOOSE n \in discrete : \A m \in discrete : n <= m
            elements == universe_stack[first].lattice_spec.elements.items
            paths == UnionPaths(tally_path.chars)
        IN  /\ Len(paths) = Len(elements)
            /\ \A p \in 1..Len(paths) :
                   LET tokens == Split(paths[p], SepLt)
                   IN  /\ Len(tokens) = Len(universe_stack)
                       /\ first > 1 =>
                              tokens[first] =
                                  StrInt(universe_stack[first].cell_id)
                                      \o to_mcnp_single_index(elements[p])
                       /\ \A n \in discrete \ {first} :
                              tokens[n] = StrInt(universe_stack[n].cell_id)

(***************************************************************************)
(* C23. As claimed: _build_tally_path gives "( target )" for an empty      *)
(* stack; for a stack with a Discrete lattice node, a union of one path    *)
(* per element of that spec, in the order of the spec's list, the paths    *)
(* differing only in the token of that node; a single parenthesised path   *)
(* for every other stack.                                                  *)
(* With two Discrete lattice nodes the paths differ in the tokens of both  *)
(* (see C22).                                                              *)
(***************************************************************************)
C23_TallyPathDispatch ==
    tally_path # None =>
        LET path == tally_path.chars
            discrete == DiscreteLatticeNodes(universe_stack)
        IN  IF universe_stack = <<>>
            THEN path = <<"(", " ">> \o StrVal(target_cell) \o <<" ", ")">>
            ELSE IF discrete = {}
            THEN /\ Count(path, <<"(">>) = 1
                 /\ Count(path, <<")">>) = 1
                 /\ path = <<"(", " ">> \o _build_single_path(universe_stack, None)
                               \o <<" ", ")">>
            ELSE LET first == CHOOSE n \in discrete : \A m \in discrete : n <= m
                     elements == universe_stack[first].lattice_spec.elements.items
                     paths == UnionPaths(path)
                     tokens == [p \in 1..Len(paths) |-> Split(paths[p], SepLt)]
                 IN  /\ Len(paths) = Len(elements)
                     /\ \A p \in 1..Len(paths) :
                            /\ Len(tokens[p]) = Len(universe_stack)
                            /\ first > 1 =>
                                   tokens[p][first] =
                                       StrInt(universe_stack[first].cell_id)
                                           \o to_mcnp_single_index(elements[p])
                            /\ \A q \in 1..Len(paths) :
                               \A n \in 1..Len(universe_stack) \ {first} :
                                   tokens[p][n] = tokens[q][n]

(***************************************************************************)
(* C24. As claimed: in every state of a selector session, on a bounded     *)
(* lattice and on the viewing window of an infinite one, every selected    *)
(* triple lies inside the bounds on the three axes, and a returned spec    *)
(* names positions of the window only.                                     *)
(* The code keeps the selection inside every window whose minima do not    *)
(* exceed its maxima.  On a window typed with a minimum above its maximum  *)
(* the cursor starts at the floor of their mean, outside the empty window, *)
(* and Enter or Space selects that cell.                                   *)
(***************************************************************************)
Volume == WindowCells(<<i_bounds, j_bounds, k_bounds>>)

\* An axis of a Contiguous spec lies inside the bounds of that axis.
AxisInside(val, bounds) ==
    IF IsTuple(val)
    THEN bounds[1] <= val.pair[1] /\ val.pair[2] <= bounds[2]
    ELSE bounds[1] <= val.n /\ val.n <= bounds[2]

C24_SelectionInsideWindow ==
    /\ selected \subseteq Volume
    /\ run_result # None =>
           IF is_contiguous(run_result)
           THEN /\ AxisInside(run_result.i, i_bounds)
                /\ AxisInside(run_result.j, j_bounds)
                /\ AxisInside(run_result.k, k_bounds)
           ELSE \A e \in 1..Len(run_result.elements.items) :
                    run_result.elements.items[e] \in Volume

(***************************************************************************)
(* C25. The key a adds every triple of the bounded volume, all layers, and *)
(* removes nothing: right after it the selection is the full volume, and   *)
(* d then returns the Contiguous spec whose axes are the bounds, a single  *)
(* value on an axis whose min equals its max.                              *)
(***************************************************************************)
AxisOfBounds(bounds) ==
    IF bounds[1] = bounds[2] THEN PyInt(bounds[1]) ELSE PyTuple(bounds[1], bounds[2])

WindowSpec ==
    LatticeSpec(AxisOfBounds(i_bounds), AxisOfBounds(j_bounds),
                AxisOfBounds(k_bounds), None)

ToggleOf(sel, cell) == IF cell \in sel THEN sel \ {cell} ELSE sel \cup {cell}

C26_ToggleOneTriple ==
    [][KeyToggle =>
           LET cell == <<cursor_i, cursor_j, current_k>>
           IN  /\ (cell \in selected') = (cell \notin selected)
               /\ \A other \in (selected \cup selected') \ {cell} :
                      (other \in selected') = (other \in selected)
               /\ <<cursor_i', cursor_j', current_k'>> = cell
               /\ ToggleOf(selected', <<cursor_i', cursor_j', current_k'>>) = selected
      ]_vars

\* The cell under the cursor has been toggled on, two others before it.
C26_Witness ==
    /\ Active
    /\ <<cursor_i, cursor_j, current_k>> \in selected
    /\ Cardinality(selected) = 3

(***************************************************************************)
(* C27. When the dialogue is done, a node of the stack carries a spec if   *)
(* and only if its lattice flag is set: every lattice node has one, from   *)
(* the selector or from manual entry, and no other node has one, the       *)
(* target included, which is never a lattice.                              *)
(***************************************************************************)
C27_SpecIffLatticeFlag ==
    wizard_pc = "done" =>
        /\ \A n \in 1..Len(universe_stack) :
               HasSpec(universe_stack[n]) <=> universe_stack[n].is_lattice
        /\ ~universe_stack[1].is_lattice
        /\ ~HasSpec(universe_stack[1])

\* A lattice parent with the Discrete spec of a selector session, under a
\* plain parent in universe 0.
C27_Witness ==
    /\ wizard_pc = "done"
    /\ Len(universe_stack) = 3
    /\ universe_stack[2].is_lattice
    /\ HasSpec(universe_stack[2])
    /\ is_non_contiguous(universe_stack[2].lattice_spec)
    /\ ~universe_stack[3].is_lattice
    /\ ~HasSpec(universe_stack[3])

(***************************************************************************)
(* C28. The spec returned by d represents exactly the selected positions:  *)
(* the positions it names are the selection and its element_count is the   *)
(* size of the selection.  A Discrete result has at least two elements, a  *)
(* one-cell selection is returned as Contiguous with three single indices, *)
(* and every range of a Contiguous result has its min below its max.       *)
(***************************************************************************)
\* The values an axis of a Contiguous spec stands for.
AxisValues(val) ==
    IF IsTuple(val) THEN val.pair[1]..val.pair[2] ELSE {val.n}

\* The positions a spec names.
SpecPositions(spec) ==
    IF is_contiguous(spec)
    THEN {<<i, j, k>> : i \in AxisValues(spec.i), j \in AxisValues(spec.j),
                        k \in AxisValues(spec.k)}
    ELSE {spec.elements.items[e] : e \in 1..Len(spec.elements.items)}

ProperRange(val) == IsTuple(val) => val.pair[1] < val.pair[2]

C28_SpecRepresentsSelection ==
    Finalized =>
        /\ SpecPositions(run_result) = selected
        /\ element_count(run_result) = Cardinality(selected)
        /\ is_non_contiguous(run_result) =>
               Len(run_result.elements.items) >= 2
        /\ Cardinality(selected) = 1 =>
               /\ is_contiguous(run_result)
               /\ IsInt(run_result.i) /\ IsInt(run_result.j) /\ IsInt(run_result.k)
        /\ is_contiguous(run_result) =>
               /\ ProperRange(run_result.i)
               /\ ProperRange(run_result.j)
               /\ ProperRange(run_result.k)

\* One cell selected, on a layer other than the first.
C28_Witness ==
    /\ Finalized
    /\ selected = {<<1, 0, 1>>}
    /\ run_result = LatticeSpec(PyInt(1), PyInt(0), PyInt(1), None)

\* A row of two cells: one proper range, two single indices.
C28_WitnessRange ==
    /\ Finalized
    /\ selected = {<<0, 0, 0>>, <<1, 0, 0>>}
    /\ run_result = LatticeSpec(PyTuple(0, 1), PyInt(0), PyInt(0), None)

(***************************************************************************)
(* C29. Each key touches its own part of the selector state: a move or a   *)
(* layer change leaves the selection; toggle, select all and clear leave   *)
(* the cursor and the layer; a move leaves the layer and a layer change    *)
(* leaves the cursor; no step changes the bounds, the lattice type or the  *)
(* infinite flag.                                                          *)
(***************************************************************************)
MoveKey ==
    KeyUp \/ KeyDown \/ KeyLeft \/ KeyRight \/ KeyE \/ KeyW \/ KeyX \/ KeyZ

LayerKey == KeyLayerDown \/ KeyLayerUp

SelectionKey == KeyToggle \/ KeySelectAll \/ KeyC \/ KeyR

C29_KeysFrame ==
    [][/\ MoveKey => UNCHANGED <<selected, current_k>>
       /\ LayerKey => UNCHANGED <<selected, cursor_i, cursor_j>>
       /\ SelectionKey => UNCHANGED <<cursor_i, cursor_j, current_k>>
       /\ selected' # selected => UNCHANGED <<cursor_i, cursor_j, current_k>>
       /\ <<cursor_i, cursor_j>>' # <<cursor_i, cursor_j>> =>
              UNCHANGED <<selected, current_k>>
       /\ current_k' # current_k => UNCHANGED <<selected, cursor_i, cursor_j>>
       /\ UNCHANGED <<i_bounds, j_bounds, k_bounds, lattice_type, is_infinite>>
      ]_vars

\* A cell toggled at the starting position is still the selection after a
\* move and a layer change.
C29_Witness ==
    /\ Active
    /\ k_bounds = <<0, MaxK>>
    /\ selected = {<<0, 0, MaxK \div 2>>}
    /\ cursor_i = 1
    /\ current_k = (MaxK \div 2) - 1

(***************************************************************************)
(* C30. As claimed: lattice_index of a node is the integer triple of the   *)
(* one position its spec names, for a Contiguous spec of three single      *)
(* indices and for a Discrete spec of one element alike; it is None when   *)
(* the node has no spec or the spec names more than one position; a triple *)
(* it returns holds no None.                                               *)
(* The code returns (spec.i, spec.j, spec.k), which of a Discrete spec are *)
(* None.                                                                   *)
(***************************************************************************)
C30_LatticeIndexOfSinglePosition ==
    \A n \in 1..Len(universe_stack) :
        LET node == universe_stack[n]
            spec == node.lattice_spec
            index == lattice_index(node)
            \* three single indices, or one element
            single == IF is_contiguous(spec)
                      THEN IsInt(spec.i) /\ IsInt(spec.j) /\ IsInt(spec.k)
                      ELSE Len(spec.elements.items) = 1
            \* a proper range on some axis, or several elements
            several == IF is_contiguous(spec) THEN element_count(spec) > 1
                       ELSE Len(spec.elements.items) > 1
            \* the one position the claim has the accessor return
            position == IF is_contiguous(spec) THEN <<spec.i.n, spec.j.n, spec.k.n>>
                        ELSE spec.elements.items[1]
        IN  /\ (HasSpec(node) /\ single) =>
                   index = PyTriple(PyInt(position[1]), PyInt(position[2]),
                                    PyInt(position[3]))
            /\ (~HasSpec(node) \/ several) => index = None
            /\ index # None =>
                   \A axis \in 1..3 : index.values[axis] # None

====
